---- MODULE Spec2Model ----
(***************************************************************************)
(* Best Seller badge tracker: the badge extractor and differ of            *)
(* keepa_service.py, the item processor and batch orchestrator of          *)
(* asin_tracker.py and the Supabase REST client of supabase_http.py.       *)
(*                                                                         *)
(* Python values are represented as follows.                               *)
(*   Optional[x]     None is <<>>, a present value x is <<x>>.             *)
(*   dict            a sequence of <<key, value>> pairs with distinct      *)
(*                   keys, in insertion order (the order of .items()).     *)
(*   rank_data       [isList |-> BOOLEAN, elems |-> sequence of ints]: the *)
(*                   value of one sales_ranks entry; isList = FALSE is a   *)
(*                   value that is no list.                                *)
(*   list index      Python x[1] is the second element, elems[2] here.     *)
(***************************************************************************)
EXTENDS Integers, Sequences, FiniteSets, TLC

VARIABLES
    \* ---- extractor harness (specification SpecExtract)
    ex_product,      \* the KeepaProductData given to extract_bestseller_badges
    ex_badges,       \* Optional: the list it returned
    \* ---- differ harness (specification SpecDiff)
    df_previous,     \* previous_badges
    df_current,      \* current_badges
    df_forward,      \* Optional: compare_badges(previous, current)
    df_backward,     \* Optional: compare_badges(current, previous)
    \* ---- cost harness (specification SpecCost)
    ec_tokens,       \* the count given to estimate_cost
    ec_cost,         \* Optional: what estimate_cost returned
    ec_reported,     \* Optional: estimated_cost_cents of the BatchProcessingResult
                     \* of a batch of that many items
    \* ---- repeated-record harness (specification SpecRepeat)
    repeat_product,  \* Optional: the provider record answered in every poll
    \* ---- the Supabase tables and the Slack channel
    asin_current_state,  \* asin -> Optional row of asin_current_state
    asin_history,        \* the rows of asin_history, oldest first
    bestseller_changes,  \* the rows of bestseller_changes; a row's id is its index
    last_checked_at,     \* asin -> tracked_asins.last_checked_at (0: never)
    error_log,           \* the rows of error_log
    slack_messages,      \* the alerts the channel confirmed, oldest first
    \* ---- one process_batch call (AsinTracker.process_batch)
    pc,                  \* where the call stands
    tracked_asins,       \* its argument: the asins of the tracked items
    product_lookup,      \* asin -> Optional product, from the provider's answer
    idx,                 \* index of the item of the for loop
    counters,            \* successful_checks, failed_checks, changes_detected,
                         \* notifications_sent
    item,                \* the locals of _process_single_asin for the item
    outcome,             \* how the last process_batch call ended
    \* ---- bookkeeping of the run, not program state
    clock,               \* items handed to process_batch so far
    observed,            \* asin -> Optional set of category ids the provider
                         \* showed at rank 1 when the item was last polled
    transitions,         \* <<asin, category>> -> number of polls at which the
                         \* category's rank-1 status differed from the poll before
    faults,              \* requests that have failed so far
    calls,               \* the calls made for the items of the batch in hand, in
                         \* order: [poll, asin, op, ok]
    provider_called,     \* whether get_products_batch has passed its rate limiter
                         \* and sent its request in the process_batch call in hand
    \* ---- SchedulerService (specification SpecScheduler)
    is_running,          \* self.is_running
    last_batch_run,      \* Optional: self.last_batch_run, in minutes
    next_batch_run,      \* Optional: self.next_batch_run, in minutes
    utcnow,              \* the time, in minutes
    next_fire_time,      \* Optional: when the main_monitoring job next comes due
    jobs,                \* the instances of _run_monitoring_batch in flight:
                         \* [batch_start, pc, run_time, coalesced]
    manual,              \* the trigger_manual_batch calls in flight:
                         \* [pc, fetch_raised, rows]
    system_alerts,       \* the send_system_alert calls made: [alert_type, at]
    scheduler_jobs,      \* the ids of the jobs self.scheduler holds (add_job)
    scheduler_running,   \* whether self.scheduler was started and not shut down
    \* ---- bookkeeping of the scheduler runs, not program state
    last_firing,         \* Optional: the firing that completed last:
                         \* [batch_start, how, finished_at]
    skipped,             \* firings that came due and were not started
    manual_results,      \* the completed trigger_manual_batch calls:
                         \* [fetch_raised, rows, batch_raised, result]
    last_call,           \* the last start() or stop() call and whether it was ignored
    \* ---- KeepaService (keepa_service.py)
    time_time,           \* time.time(), in half seconds
    last_request_time,   \* self.last_request_time
    callers,             \* the get_products_batch call of each caller:
                         \* [pc, asins, wake]
    requests,            \* the requests sent to the provider: [caller, at, asins]
    batch_run,           \* a process_batch run seen from the provider client:
                         \* [pc, asins, wake, processed, requests_before, last_before]
    \* ---- two batch runs at once (the scheduled one and a manual one)
    runs                 \* the _process_single_asin call of each run on the one
                         \* item both selected: [pc, product, current_state,
                         \* current_badges, pending, changes, to_notify]

cost_vars == <<ec_tokens, ec_cost, ec_reported, repeat_product>>

pure_vars == <<ex_product, ex_badges, df_previous, df_current, df_forward, df_backward,
               ec_tokens, ec_cost, ec_reported, repeat_product>>

store_vars == <<asin_current_state, asin_history, bestseller_changes, last_checked_at,
                error_log, slack_messages>>

batch_vars == <<pc, tracked_asins, product_lookup, idx, counters, item, outcome>>

ghost_vars == <<clock, observed, transitions, faults, calls, provider_called>>

sched_vars == <<is_running, last_batch_run, next_batch_run, utcnow, next_fire_time, jobs, manual,
                system_alerts, last_firing, skipped, manual_results, last_call,
                scheduler_jobs, scheduler_running>>

keepa_vars == <<time_time, last_request_time, callers, requests, batch_run>>

vars == <<pure_vars, store_vars, batch_vars, ghost_vars, sched_vars, keepa_vars, runs>>

\* ------------------------------------------------------------------ bounds

\* longest sales_ranks mapping given to the extractor harness
MaxRanks == 2
\* longest designation list given to the differ harness
MaxBadges == 2
\* items handed to process_batch in one run of the model, over all its calls
MaxPolls == 2
\* requests that fail (exception, error status, channel not ok) in one run of
\* the model
MaxFaults == 1
\* change records of the dispatcher harness
MaxEvents == 2
\* dispatcher calls of the dispatcher harness
MaxDispatches == 3
\* scheduled firings that come due after the first start()
MaxFirings == 2
\* trigger_manual_batch calls
MaxManual == 1
\* start() calls
MaxStarts == 2
\* get_products_batch calls
MaxRequests == 3
\* half seconds the clock of the provider client runs
MaxSeconds == 3
\* largest token count given to the cost harness, the spec's examples apart
MaxTokens == 300

\* ------------------------------------------------------------- value sets

None == <<>>
Some(x) == <<x>>
IsNone(o) == o = <<>>

\* category ids as the provider keys them (strings) and as the category tree
\* carries them (integers)
CatNums == {9, 50, 77}
Cats == {ToString(n) : n \in CatNums}
Names == {"Widgets", "Gadgets"}

Range(s) == {s[i] : i \in DOMAIN s}

\* sequences over S of length at most n without repeated elements
RECURSIVE DistinctSeqs(_, _)
DistinctSeqs(S, n) ==
    IF n = 0 THEN {<<>>}
    ELSE LET shorter == DistinctSeqs(S, n - 1)
         IN  shorter \cup
             {Append(p[1], p[2]) :
                 p \in {q \in shorter \X S : Len(q[1]) = n - 1 /\ q[2] \notin Range(q[1])}}

\* a rank_data value: a list of ints, or a value that is no list
List(elems) == [isList |-> TRUE, elems |-> elems]
NotAList == [isList |-> FALSE, elems |-> <<>>]
RankData == {NotAList, List(<<>>), List(<<0>>), List(<<0, 1>>), List(<<0, 5>>),
             List(<<1, 5>>), List(<<0, 1, 7>>)}

\* dicts with keys among Cats and values among V, of at most n entries
Dicts(V, n) ==
    UNION {{[i \in DOMAIN ks |-> <<ks[i], v[i]>>] : v \in [DOMAIN ks -> V]} :
              ks \in DistinctSeqs(Cats, n)}

\* one categoryTree entry; hasKeys is FALSE for an entry without "catId" or
\* "name"
TreeEntry(catId, name) == [catId |-> catId, name |-> name, hasKeys |-> TRUE]
BrokenEntry(catId) == [catId |-> catId, name |-> "", hasKeys |-> FALSE]
Trees == {<<>>,
          <<TreeEntry(50, "Widgets")>>,
          <<TreeEntry(50, "Widgets"), TreeEntry(77, "Gadgets")>>,
          <<TreeEntry(50, "Widgets"), TreeEntry(50, "Gadgets"), BrokenEntry(77)>>}

\* KeepaProductData (schemas.py): the fields the tracker reads.  last_update
\* is Optional[int].
Product(asin, sales_ranks, category_tree, last_update) ==
    [asin |-> asin, sales_ranks |-> sales_ranks, category_tree |-> category_tree,
     last_update |-> last_update]

\* BestSellerBadge (schemas.py)
BestSellerBadge(category_id, category_name, rank) ==
    [category_id |-> category_id, category_name |-> category_name, rank |-> rank,
     is_bestseller |-> TRUE]

\* designation lists of at most n badges with distinct category ids
BadgeLists(n) ==
    UNION {{[i \in DOMAIN ks |-> BestSellerBadge(ks[i], nm[i], 1)] : nm \in [DOMAIN ks -> Names]} :
              ks \in DistinctSeqs(Cats, n)}

\* ---------------------------------------------------------- Python idioms

\* truth value of an Optional container: None and the empty container are
\* both false
Truthy(opt) == opt # None /\ opt[1] # <<>>
\* `opt or []`
OrEmpty(opt) == IF Truthy(opt) THEN opt[1] ELSE <<>>

Keys(d) == {d[i][1] : i \in DOMAIN d}
\* d[k] for a key the dict holds
Get(d, k) == d[CHOOSE i \in DOMAIN d : d[i][1] = k][2]

Max(S) == CHOOSE x \in S : \A y \in S : y <= x

\* ------------------------------------------- KeepaService (keepa_service.py)

\* the category_lookup dict built from the category tree: str(catId) -> name,
\* a later entry overwriting an earlier one with the same id
category_lookup(category_tree) ==
    LET ok == {i \in DOMAIN category_tree : category_tree[i].hasKeys}
        ids == {ToString(category_tree[i].catId) : i \in ok}
    IN  [k \in ids |->
            category_tree[Max({i \in ok : ToString(category_tree[i].catId) = k})].name]

\* category_lookup.get(category_id, f"Category {category_id}")
lookup_name(lookup, category_id) ==
    IF category_id \in DOMAIN lookup THEN lookup[category_id]
    ELSE "Category " \o category_id

IsBestSellerRank_first(rank_data) ==
    rank_data.isList /\ Len(rank_data.elems) >= 1 /\ rank_data.elems[1] = 1

\* the test of one sales_ranks value: a list of at least two elements whose
\* second element is 1
IsBestSellerRank(rank_data) ==
    rank_data.isList /\ Len(rank_data.elems) >= 2 /\ rank_data.elems[2] = 1

\* the loop over product.sales_ranks.items()
RECURSIVE extract_loop(_, _)
extract_loop(items, lookup) ==
    IF items = <<>> THEN <<>>
    ELSE LET category_id == Head(items)[1]
             rank_data == Head(items)[2]
             rest == extract_loop(Tail(items), lookup)
         IN  IF IsBestSellerRank(rank_data)
             THEN <<BestSellerBadge(category_id, lookup_name(lookup, category_id),
                                    rank_data.elems[2])>> \o rest
             ELSE rest

extract_bestseller_badges(product) ==
    IF ~Truthy(product.sales_ranks) THEN <<>>
    ELSE extract_loop(product.sales_ranks[1], category_lookup(product.category_tree))

CategoryIds(badges) == {badges[i].category_id : i \in DOMAIN badges}

gained_categories_all_current(prev_categories, curr_categories) == curr_categories

gained_categories(prev_categories, curr_categories) == curr_categories \ prev_categories

lost_categories_all_previous(prev_categories, curr_categories) == prev_categories

lost_categories(prev_categories, curr_categories) == prev_categories \ curr_categories

unchanged_categories_union(prev_categories, curr_categories) ==
    prev_categories \cup curr_categories

unchanged_categories(prev_categories, curr_categories) == prev_categories \cap curr_categories

compare_badges(previous_badges, current_badges) ==
    LET prev_categories == CategoryIds(previous_badges)
        curr_categories == CategoryIds(current_badges)
        InGained(b) == b.category_id \in gained_categories(prev_categories, curr_categories)
        InLost(b) == b.category_id \in lost_categories(prev_categories, curr_categories)
        InUnchanged(b) ==
            b.category_id \in unchanged_categories(prev_categories, curr_categories)
    IN  [gained |-> SelectSeq(current_badges, InGained),
         lost |-> SelectSeq(previous_badges, InLost),
         unchanged |-> SelectSeq(current_badges, InUnchanged)]

\* ------------------------------------------------------- the tracked items

Asins == {"B000000001", "B000000002"}

\* the item lists process_batch is called with: get_asins_to_check answers the
\* rows in its query's order, here the order of the asins
TrackedLists ==
    {<<>>, <<"B000000001">>, <<"B000000001", "B000000002">>}

\* the provider records of the batch runs.  The rank mappings: 50 at rank 1;
\* 50 and 77 at rank 1; 50 at rank 5 and 77 at rank 1; 50 at rank 5 and a
\* one-element entry for 77.  The category tree names category 50 only.
\* lastUpdate is absent, or present on one of the mappings.
Ranks50 == <<<<"50", List(<<0, 1>>)>>>>
Ranks50And77 == <<<<"50", List(<<0, 1>>)>>, <<"77", List(<<0, 1>>)>>>>
Ranks77 == <<<<"50", List(<<0, 5>>)>>, <<"77", List(<<0, 1>>)>>>>
RanksNone == <<<<"50", List(<<0, 5>>)>>, <<"77", List(<<0>>)>>>>

BatchRanks == {Ranks50, Ranks50And77, Ranks77, RanksNone}

BatchProducts(asin) ==
    {Product(asin, Some(d), <<TreeEntry(50, "Widgets")>>, None) : d \in BatchRanks}
    \cup {Product(asin, Some(d), <<TreeEntry(50, "Widgets")>>, Some(7654321)) :
             d \in {Ranks50And77}}

\* the categories the provider record shows at rank 1
RankOneCategories(product) ==
    IF product.sales_ranks = None THEN {}
    ELSE {e[1] : e \in {x \in Range(product.sales_ranks[1]) :
                          x[2].isList /\ Len(x[2].elems) >= 2 /\ x[2].elems[2] = 1}}

\* ------------------------------------ SupabaseHTTPClient (supabase_http.py)
\* Every method catches its exceptions and answers None or False on a failed
\* request; `ok` is whether the request went through (no exception, no 5xx).

\* get_asin_current_state: the row, or None when there is none or the request
\* failed
get_asin_current_state(table, asin, ok) == IF ok THEN table[asin] ELSE None

update_asin_current_state_patch_only(table, asin, state_data, patch_ok, post_ok) ==
    IF patch_ok /\ table[asin] # None THEN [table EXCEPT ![asin] = Some(state_data)]
    ELSE table

\* update_asin_current_state: PATCH the row; on 404 (no such row) POST it.
\* The table after the call.
update_asin_current_state(table, asin, state_data, patch_ok, post_ok) ==
    LET status == IF ~patch_ok THEN 500 ELSE IF table[asin] = None THEN 404 ELSE 200
    IN  IF status = 200 THEN [table EXCEPT ![asin] = Some(state_data)]
        ELSE IF status = 404 /\ post_ok THEN [table EXCEPT ![asin] = Some(state_data)]
        ELSE table

\* create_history_record: the table after the POST
create_history_record(table, history_data, ok) ==
    IF ok THEN Append(table, history_data) ELSE table

create_bestseller_change_id_anyway(table, change_data, ok) == Some(Len(table) + 1)

\* create_bestseller_change: the id of the new row, or None
create_bestseller_change(table, change_data, ok) ==
    IF ok THEN Some(Len(table) + 1) ELSE None

\* the bestseller_changes table after create_bestseller_change
create_bestseller_change_rows(table, change_data, ok) ==
    IF ok THEN Append(table, [change_data EXCEPT !.id = Len(table) + 1]) ELSE table

update_bestseller_change_notification_flag_only(table, change_id, notification_data, ok) ==
    IF ok /\ change_id \in DOMAIN table
    THEN [table EXCEPT ![change_id].notification_sent = TRUE]
    ELSE table

\* update_bestseller_change_notification: the table after the PATCH of the
\* row with that id
update_bestseller_change_notification(table, change_id, notification_data, ok) ==
    IF ok /\ change_id \in DOMAIN table
    THEN [table EXCEPT ![change_id] =
             [@ EXCEPT !.notification_sent = notification_data.notification_sent,
                       !.notification_sent_at = notification_data.notification_sent_at,
                       !.notification_method = notification_data.notification_method]]
    ELSE table

\* update_asin_last_checked: the column after the PATCH
update_asin_last_checked(column, asin, now, ok) ==
    IF ok THEN [column EXCEPT ![asin] = now] ELSE column

\* log_error: the table after the POST
log_error(table, error_data, ok) == IF ok THEN Append(table, error_data) ELSE table

\* ----------------------------------------- AsinTracker (asin_tracker.py)

\* the row _create_change_record posts
ChangeData(asin, change_type, badge, previous_rank, new_rank, now) ==
    [id |-> 0, asin |-> asin, change_type |-> change_type,
     category |-> badge.category_name, category_id |-> badge.category_id,
     previous_rank |-> previous_rank, new_rank |-> new_rank,
     previous_badge_status |-> change_type = "lost",
     new_badge_status |-> change_type = "gained",
     detected_at |-> now, notification_sent |-> FALSE, notification_sent_at |-> None,
     notification_method |-> None]

\* the current rank of a lost badge's category: the second element of its
\* sales_ranks entry when that is a list of at least two elements, else None
current_rank_of(product, badge) ==
    IF Truthy(product.sales_ranks) /\ badge.category_id \in Keys(product.sales_ranks[1])
    THEN LET rank_data == Get(product.sales_ranks[1], badge.category_id)
         IN  IF rank_data.isList /\ Len(rank_data.elems) >= 2
             THEN Some(rank_data.elems[2])
             ELSE None
    ELSE None

Map(f(_), s) == [i \in DOMAIN s |-> f(s[i])]

changes_to_record_without_state_check(asin, current_state, current_badges, product, now) ==
    LET previous_badges == IF current_state = None THEN <<>>
                           ELSE current_state[1].bestseller_badges
        badge_comparison == compare_badges(previous_badges, current_badges)
        Gained(badge) == ChangeData(asin, "gained", badge, None, Some(badge.rank), now)
        Lost(badge) == ChangeData(asin, "lost", badge, Some(1),
                                  current_rank_of(product, badge), now)
    IN  Map(Gained, badge_comparison.gained) \o Map(Lost, badge_comparison.lost)

\* the change records _process_single_asin sets out to create, in order: none
\* without a prior state, else one per gained badge, then one per lost badge
changes_to_record(asin, current_state, current_badges, product, now) ==
    IF current_state # None
    THEN LET previous_badges == current_state[1].bestseller_badges
             badge_comparison == compare_badges(previous_badges, current_badges)
             Gained(badge) == ChangeData(asin, "gained", badge, None, Some(badge.rank), now)
             Lost(badge) == ChangeData(asin, "lost", badge, Some(1),
                                       current_rank_of(product, badge), now)
         IN  Map(Gained, badge_comparison.gained) \o Map(Lost, badge_comparison.lost)
    ELSE <<>>

\* whether building state_data or history_data raises: last_update is an
\* Optional[int], and `product.last_update.isoformat()` is evaluated when it
\* is truthy
isoformat_raises(product) == product.last_update # None /\ product.last_update[1] # 0

StateData_without_badges(asin, product, badges) ==
    [asin |-> asin, bestseller_badges |-> <<>>,
     sales_ranks |-> OrEmpty(product.sales_ranks)]

\* state_data of _update_current_state and _create_current_state
StateData(asin, product, badges) ==
    [asin |-> asin, bestseller_badges |-> badges,
     sales_ranks |-> OrEmpty(product.sales_ranks)]

\* history_data of _create_history_record
HistoryData(asin, product, badges, now) ==
    [asin |-> asin, bestseller_badges |-> badges,
     sales_ranks |-> OrEmpty(product.sales_ranks), checked_at |-> now]

ErrorData(asin, now) ==
    [error_type |-> "asin_processing", asin |-> asin,
     error_message |-> "'int' object has no attribute 'isoformat'", occurred_at |-> now]

\* the payload _send_change_notification builds; change_id is not part of the
\* Slack message, it tells the deliveries of one change record from another's
SlackNotificationPayload(asin, change) ==
    [asin |-> asin, change_type |-> change.change_type, category_id |-> change.category_id,
     previous_rank |-> change.previous_rank, new_rank |-> change.new_rank,
     change_id |-> change.id]

\* send_bestseller_alert: the channel after the send; `sent` is "ok" when the
\* channel confirmed, "not_ok" when it answered not ok, "raised" when the
\* send raised
send_bestseller_alert(channel, payload, sent) ==
    IF sent = "ok" THEN Append(channel, payload) ELSE channel

\* notification_data of _send_change_notification
NotificationData(now) ==
    [notification_sent |-> TRUE, notification_sent_at |-> Some(now),
     notification_method |-> Some("slack")]

marked_after_send_whatever_sent(table, change, now, sent, mark_ok) ==
    update_bestseller_change_notification(table, change.id, NotificationData(now), mark_ok)

\* _send_change_notification: the bestseller_changes table after the call
marked_after_send(table, change, now, sent, mark_ok) ==
    IF sent = "ok"
    THEN update_bestseller_change_notification(table, change.id, NotificationData(now), mark_ok)
    ELSE table

NoItem ==
    [asin |-> "", product |-> None, current_state |-> None, current_badges |-> <<>>,
     pending |-> <<>>, changes |-> <<>>, to_notify |-> <<>>, rows_before |-> 0]

ZeroCounters ==
    [successful_checks |-> 0, failed_checks |-> 0, changes_detected |-> 0,
     notifications_sent |-> 0]

Outcome_successes_as_processed(status, n, c) ==
    [status |-> status, asins_processed |-> c.successful_checks,
     successful_checks |-> c.successful_checks,
     failed_checks |-> c.failed_checks, changes_detected |-> c.changes_detected,
     notifications_sent |-> c.notifications_sent]

\* the BatchProcessingResult of process_batch, and how the call ended
Outcome(status, n, c) ==
    [status |-> status, asins_processed |-> n, successful_checks |-> c.successful_checks,
     failed_checks |-> c.failed_checks, changes_detected |-> c.changes_detected,
     notifications_sent |-> c.notifications_sent]

Call(op, ok) == [poll |-> clock, asin |-> item.asin, op |-> op, ok |-> ok]

\* n more requests fail
Fail(n) == faults + n <= MaxFaults /\ faults' = faults + n
Failed(ok) == IF ok THEN 0 ELSE 1

\* the row an earlier check of the item left when it saw category 50 at rank 1
EarlierState(asin) ==
    StateData(asin, Product(asin, Some(Ranks50), <<TreeEntry(50, "Widgets")>>, None),
              <<BestSellerBadge("50", "Widgets", 1)>>)

\* the tables as the process finds them: no asin_current_state row yet, or for
\* every item the row of an earlier check; nothing in flight
InitBatch ==
    /\ asin_current_state \in {[a \in Asins |-> None], [a \in Asins |-> Some(EarlierState(a))]}
    /\ asin_history = <<>>
    /\ bestseller_changes = <<>>
    /\ last_checked_at = [a \in Asins |-> 0]
    /\ error_log = <<>>
    /\ slack_messages = <<>>
    /\ pc = "idle"
    /\ tracked_asins = <<>>
    /\ product_lookup = [a \in Asins |-> None]
    /\ idx = 0
    /\ counters = ZeroCounters
    /\ item = NoItem
    /\ outcome = Outcome("none", 0, ZeroCounters)
    /\ clock = 0
    /\ observed = [a \in Asins |->
                      IF asin_current_state[a] = None THEN None
                      ELSE Some(CategoryIds(asin_current_state[a][1].bestseller_badges))]
    /\ transitions = [k \in Asins \X Cats |-> 0]
    /\ faults = 0
    /\ calls = <<>>
    /\ provider_called = FALSE

\* process_batch is called with a list of tracked items
StartBatch ==
    /\ pc = "idle"
    /\ \E list \in TrackedLists :
          /\ clock + Len(list) <= MaxPolls
          /\ tracked_asins' = list
    /\ pc' = "fetch"
    /\ product_lookup' = [a \in Asins |-> None]
    /\ idx' = 0
    /\ counters' = ZeroCounters
    /\ item' = NoItem
    /\ outcome' = Outcome("running", 0, ZeroCounters)
    /\ calls' = <<>>
    /\ UNCHANGED <<sched_vars, keepa_vars, runs>>
    /\ UNCHANGED <<pure_vars, store_vars, clock, observed, transitions, faults>>
    /\ provider_called' = FALSE

\* get_products_batch answers with the records of some of the asins
FetchReturns ==
    /\ pc = "fetch"
    /\ \E returned \in SUBSET Range(tracked_asins) :
          \E lookup \in [Asins -> {None} \cup UNION {{Some(p) : p \in BatchProducts(a)} : a \in Asins}] :
             /\ \A a \in Asins :
                   IF a \in returned THEN lookup[a] # None /\ lookup[a][1].asin = a
                   ELSE lookup[a] = None
             /\ product_lookup' = lookup
    /\ idx' = 1
    /\ pc' = "loop"
    /\ provider_called' = TRUE
    /\ UNCHANGED <<sched_vars, keepa_vars, runs>>
    /\ UNCHANGED <<pure_vars, store_vars, clock, observed, transitions, faults, calls,
                   tracked_asins, counters, item, outcome>>

\* get_products_batch raises (timeout, HTTP error): process_batch logs and
\* re-raises
FetchRaises ==
    /\ pc = "fetch"
    /\ pc' = "idle"
    /\ outcome' = Outcome("raised", 0, ZeroCounters)
    /\ Fail(1)
    /\ UNCHANGED <<sched_vars, keepa_vars, runs>>
    /\ UNCHANGED <<pure_vars, store_vars, clock, observed, transitions, calls, tracked_asins,
                   product_lookup, idx, counters, item>>
    /\ provider_called' = TRUE

ItemNoProduct_not_counted ==
    /\ pc = "loop"
    /\ idx <= Len(tracked_asins)
    /\ product_lookup[tracked_asins[idx]] = None
    /\ idx' = idx + 1
    /\ clock' = clock + 1
    /\ calls' = Append(calls, [poll |-> clock + 1, asin |-> tracked_asins[idx],
                               op |-> "no_product", ok |-> TRUE])
    /\ UNCHANGED <<sched_vars, keepa_vars, runs>>
    /\ UNCHANGED <<pure_vars, store_vars, pc, tracked_asins, product_lookup, item, outcome,
                   observed, transitions, faults, counters>>
    /\ UNCHANGED provider_called

\* the loop takes an item without a record and stamps it as checked
ItemNoProduct_stamps ==
    /\ pc = "loop"
    /\ idx <= Len(tracked_asins)
    /\ product_lookup[tracked_asins[idx]] = None
    /\ counters' = [counters EXCEPT !.failed_checks = @ + 1]
    /\ idx' = idx + 1
    /\ clock' = clock + 1
    /\ calls' = Append(calls, [poll |-> clock + 1, asin |-> tracked_asins[idx],
                               op |-> "no_product", ok |-> TRUE])
    /\ UNCHANGED <<sched_vars, keepa_vars, runs>>
    /\ last_checked_at' = [last_checked_at EXCEPT ![tracked_asins[idx]] = clock + 1]
    /\ UNCHANGED <<pure_vars, asin_current_state, asin_history, bestseller_changes, error_log,
                   slack_messages, pc, tracked_asins, product_lookup, item, outcome,
                   observed, transitions, faults>>
    /\ UNCHANGED provider_called

\* the loop takes an item the provider returned no record for
ItemNoProduct ==
    /\ pc = "loop"
    /\ idx <= Len(tracked_asins)
    /\ product_lookup[tracked_asins[idx]] = None
    /\ counters' = [counters EXCEPT !.failed_checks = @ + 1]
    /\ idx' = idx + 1
    /\ clock' = clock + 1
    /\ calls' = Append(calls, [poll |-> clock + 1, asin |-> tracked_asins[idx],
                               op |-> "no_product", ok |-> TRUE])
    /\ UNCHANGED <<sched_vars, keepa_vars, runs>>
    /\ UNCHANGED <<pure_vars, store_vars, pc, tracked_asins, product_lookup, item, outcome,
                   observed, transitions, faults>>
    /\ UNCHANGED provider_called

\* the loop takes any item of the list still to do
BeginItem_any_order ==
    /\ pc = "loop"
    /\ idx <= Len(tracked_asins)
    /\ \E n \in idx..Len(tracked_asins) :
          /\ product_lookup[tracked_asins[n]] # None
          /\ LET asin == tracked_asins[n]
                 product == product_lookup[asin][1]
                 seen == RankOneCategories(product)
             IN  /\ item' = [NoItem EXCEPT !.asin = asin, !.product = Some(product),
                                           !.rows_before = Len(bestseller_changes)]
                 /\ observed' = [observed EXCEPT ![asin] = Some(seen)]
                 /\ transitions' =
                       [k \in Asins \X Cats |->
                           IF /\ k[1] = asin
                              /\ observed[asin] # None
                              /\ (k[2] \in seen) # (k[2] \in observed[asin][1])
                           THEN transitions[k] + 1
                           ELSE transitions[k]]
    /\ clock' = clock + 1
    /\ pc' = "get_state"
    /\ UNCHANGED <<sched_vars, keepa_vars, runs>>
    /\ UNCHANGED <<pure_vars, store_vars, tracked_asins, product_lookup, idx, counters, outcome,
                   faults, calls>>
    /\ UNCHANGED provider_called

\* the loop takes an item with a record and calls _process_single_asin
BeginItem ==
    /\ pc = "loop"
    /\ idx <= Len(tracked_asins)
    /\ product_lookup[tracked_asins[idx]] # None
    /\ LET asin == tracked_asins[idx]
           product == product_lookup[asin][1]
           seen == RankOneCategories(product)
       IN  /\ item' = [NoItem EXCEPT !.asin = asin, !.product = Some(product),
                                     !.rows_before = Len(bestseller_changes)]
           /\ observed' = [observed EXCEPT ![asin] = Some(seen)]
           /\ transitions' =
                 [k \in Asins \X Cats |->
                     IF /\ k[1] = asin
                        /\ observed[asin] # None
                        /\ (k[2] \in seen) # (k[2] \in observed[asin][1])
                     THEN transitions[k] + 1
                     ELSE transitions[k]]
    /\ clock' = clock + 1
    /\ pc' = "get_state"
    /\ UNCHANGED <<sched_vars, keepa_vars, runs>>
    /\ UNCHANGED <<pure_vars, store_vars, tracked_asins, product_lookup, idx, counters, outcome,
                   faults, calls>>
    /\ UNCHANGED provider_called

\* get_asin_current_state, extract_bestseller_badges and, with a prior state,
\* compare_badges
GetCurrentState ==
    /\ pc = "get_state"
    /\ \E ok \in BOOLEAN :
          LET current_state == get_asin_current_state(asin_current_state, item.asin, ok)
              current_badges == extract_bestseller_badges(item.product[1])
              pending == changes_to_record(item.asin, current_state, current_badges,
                                           item.product[1], clock)
          IN  /\ item' = [item EXCEPT !.current_state = current_state,
                                      !.current_badges = current_badges,
                                      !.pending = pending]
              /\ pc' = IF pending # <<>> THEN "create_changes" ELSE "write_state"
              /\ calls' = Append(calls, Call("get_state", ok))
              /\ Fail(Failed(ok))
    /\ UNCHANGED <<sched_vars, keepa_vars, runs>>
    /\ UNCHANGED <<pure_vars, store_vars, tracked_asins, product_lookup, idx, counters, outcome,
                   clock, observed, transitions>>
    /\ UNCHANGED provider_called

\* _create_change_record for the next gained or lost badge
CreateChangeRecord ==
    /\ pc = "create_changes"
    /\ \E ok \in BOOLEAN :
          LET change_data == Head(item.pending)
              change_id == create_bestseller_change(bestseller_changes, change_data, ok)
          IN  /\ bestseller_changes' =
                    create_bestseller_change_rows(bestseller_changes, change_data, ok)
              /\ item' = [item EXCEPT
                    !.pending = Tail(@),
                    !.changes = IF change_id # None
                                THEN Append(@, [change_data EXCEPT !.id = change_id[1]])
                                ELSE @]
              /\ calls' = Append(calls, Call("create_change", ok))
              /\ Fail(Failed(ok))
    /\ pc' = IF Tail(item.pending) # <<>> THEN "create_changes" ELSE "write_state"
    /\ UNCHANGED <<sched_vars, keepa_vars, runs>>
    /\ UNCHANGED <<pure_vars, asin_current_state, asin_history, last_checked_at, error_log,
                   slack_messages, tracked_asins, product_lookup, idx, counters, outcome,
                   clock, observed, transitions>>
    /\ UNCHANGED provider_called

\* _update_current_state or _create_current_state raises while it builds
\* state_data
WriteCurrentStateRaises ==
    /\ pc = "write_state"
    /\ isoformat_raises(item.product[1])
    /\ pc' = "item_error"
    /\ calls' = Append(calls, Call("raised", TRUE))
    /\ UNCHANGED <<sched_vars, keepa_vars, runs>>
    /\ UNCHANGED <<pure_vars, store_vars, tracked_asins, product_lookup, idx, counters, item,
                   outcome, clock, observed, transitions, faults>>
    /\ UNCHANGED provider_called

\* _update_current_state or _create_current_state: update_asin_current_state
WriteCurrentState ==
    /\ pc = "write_state"
    /\ ~isoformat_raises(item.product[1])
    /\ \E patch_ok \in BOOLEAN, post_ok \in BOOLEAN :
          LET state_data == StateData(item.asin, item.product[1], item.current_badges)
              after == update_asin_current_state(asin_current_state, item.asin, state_data,
                                                 patch_ok, post_ok)
          IN  /\ asin_current_state' = after
              /\ calls' = Append(calls, Call("write_state", after[item.asin] = Some(state_data)))
              /\ Fail(IF ~patch_ok \/ (asin_current_state[item.asin] = None /\ ~post_ok)
                      THEN 1 ELSE 0)
    /\ pc' = "write_history"
    /\ UNCHANGED <<sched_vars, keepa_vars, runs>>
    /\ UNCHANGED <<pure_vars, asin_history, bestseller_changes, last_checked_at, error_log,
                   slack_messages, tracked_asins, product_lookup, idx, counters, item, outcome,
                   clock, observed, transitions>>
    /\ UNCHANGED provider_called

\* _create_history_record
WriteHistory ==
    /\ pc = "write_history"
    /\ \E ok \in BOOLEAN :
          /\ asin_history' =
                create_history_record(asin_history,
                    HistoryData(item.asin, item.product[1], item.current_badges, clock), ok)
          /\ calls' = Append(calls, Call("write_history", ok))
          /\ Fail(Failed(ok))
    /\ pc' = "last_checked"
    /\ UNCHANGED <<sched_vars, keepa_vars, runs>>
    /\ UNCHANGED <<pure_vars, asin_current_state, bestseller_changes, last_checked_at, error_log,
                   slack_messages, tracked_asins, product_lookup, idx, counters, item, outcome,
                   clock, observed, transitions>>
    /\ UNCHANGED provider_called

\* update_asin_last_checked, then _process_single_asin returns its changes and
\* process_batch counts them
UpdateLastChecked ==
    /\ pc = "last_checked"
    /\ \E ok \in BOOLEAN :
          /\ last_checked_at' = update_asin_last_checked(last_checked_at, item.asin, clock, ok)
          /\ calls' = Append(calls, Call("last_checked", ok))
          /\ Fail(Failed(ok))
    /\ item' = [item EXCEPT !.to_notify = item.changes]
    /\ counters' = [counters EXCEPT !.changes_detected = @ + Len(item.changes)]
    /\ pc' = "notify"
    /\ UNCHANGED <<sched_vars, keepa_vars, runs>>
    /\ UNCHANGED <<pure_vars, asin_current_state, asin_history, bestseller_changes, error_log,
                   slack_messages, tracked_asins, product_lookup, idx, outcome, clock, observed,
                   transitions>>
    /\ UNCHANGED provider_called

\* _send_change_notification for the next returned change: the channel
\* confirms ("ok"), answers not ok, or the send raises; on "ok" the change row
\* is marked
SendChangeNotification ==
    /\ pc = "notify"
    /\ item.to_notify # <<>>
    /\ \E sent \in {"ok", "not_ok", "raised"}, mark_ok \in BOOLEAN :
          LET change == Head(item.to_notify)
              success == sent = "ok"
          IN  /\ slack_messages' =
                    send_bestseller_alert(slack_messages,
                                          SlackNotificationPayload(item.asin, change), sent)
              /\ bestseller_changes' =
                    marked_after_send(bestseller_changes, change, clock, sent, mark_ok)
              /\ counters' = [counters EXCEPT
                    !.notifications_sent = IF success THEN @ + 1 ELSE @]
              /\ calls' = IF success
                          THEN Append(Append(calls, Call("notify", TRUE)),
                                      Call("mark", mark_ok))
                          ELSE Append(calls, Call("notify", FALSE))
              /\ (~success => mark_ok)
              /\ Fail(Failed(success) + Failed(mark_ok))
    /\ item' = [item EXCEPT !.to_notify = Tail(@)]
    /\ UNCHANGED <<sched_vars, keepa_vars, runs>>
    /\ UNCHANGED <<pure_vars, asin_current_state, asin_history, last_checked_at, error_log, pc,
                   tracked_asins, product_lookup, idx, outcome, clock, observed, transitions>>
    /\ UNCHANGED provider_called

\* every returned change has been notified: the item is a successful check
ItemSucceeded ==
    /\ pc = "notify"
    /\ item.to_notify = <<>>
    /\ counters' = [counters EXCEPT !.successful_checks = @ + 1]
    /\ idx' = idx + 1
    /\ pc' = "loop"
    /\ calls' = Append(calls, Call("succeeded", TRUE))
    /\ UNCHANGED <<sched_vars, keepa_vars, runs>>
    /\ UNCHANGED <<pure_vars, store_vars, tracked_asins, product_lookup, item, outcome, clock,
                   observed, transitions, faults>>
    /\ UNCHANGED provider_called

ItemFailed_reraises ==
    /\ pc = "item_error"
    /\ counters' = [counters EXCEPT !.failed_checks = @ + 1]
    /\ \E ok \in BOOLEAN :
          /\ error_log' = log_error(error_log, ErrorData(item.asin, clock), ok)
          /\ calls' = Append(calls, Call("log_error", ok))
          /\ Fail(Failed(ok))
    /\ outcome' = Outcome("raised", 0, ZeroCounters)
    /\ pc' = "idle"
    /\ UNCHANGED <<sched_vars, keepa_vars, runs>>
    /\ UNCHANGED <<pure_vars, asin_current_state, asin_history, bestseller_changes,
                   last_checked_at, slack_messages, tracked_asins, product_lookup, item, idx,
                   clock, observed, transitions>>
    /\ UNCHANGED provider_called

\* the except branch of the loop: the item is a failed check and _log_error
\* posts an error_log row
ItemFailed ==
    /\ pc = "item_error"
    /\ counters' = [counters EXCEPT !.failed_checks = @ + 1]
    /\ \E ok \in BOOLEAN :
          /\ error_log' = log_error(error_log, ErrorData(item.asin, clock), ok)
          /\ calls' = Append(calls, Call("log_error", ok))
          /\ Fail(Failed(ok))
    /\ idx' = idx + 1
    /\ pc' = "loop"
    /\ UNCHANGED <<sched_vars, keepa_vars, runs>>
    /\ UNCHANGED <<pure_vars, asin_current_state, asin_history, bestseller_changes,
                   last_checked_at, slack_messages, tracked_asins, product_lookup, item, outcome,
                   clock, observed, transitions>>
    /\ UNCHANGED provider_called

\* after the loop: the usage log and the BatchProcessingResult
FinishBatch ==
    /\ pc = "loop"
    /\ idx > Len(tracked_asins)
    /\ outcome' = Outcome("returned", Len(tracked_asins), counters)
    /\ pc' = "idle"
    /\ UNCHANGED <<sched_vars, keepa_vars, runs>>
    /\ UNCHANGED <<pure_vars, store_vars, ghost_vars, tracked_asins, product_lookup, idx,
                   counters, item>>

Next ==
    \/ StartBatch
    \/ FetchReturns
    \/ FetchRaises
    \/ ItemNoProduct
    \/ BeginItem
    \/ GetCurrentState
    \/ CreateChangeRecord
    \/ WriteCurrentStateRaises
    \/ WriteCurrentState
    \/ WriteHistory
    \/ UpdateLastChecked
    \/ SendChangeNotification
    \/ ItemSucceeded
    \/ ItemFailed
    \/ FinishBatch

\* ------------------------------------ SchedulerService (scheduler.py)
\* The main_monitoring job and trigger_manual_batch (specification
\* SpecScheduler).  Time is in minutes.  process_batch is entered here by how
\* it ends, returned or raised; its steps are the actions of Spec.

\* settings.check_interval_minutes
check_interval_minutes == 60

\* the job is registered with max_instances=1
max_instances == 1

\* the time the runs of the model end
Horizon == (MaxFirings + 1) * check_interval_minutes

Remove(seq, i) == [k \in 1..(Len(seq) - 1) |-> IF k < i THEN seq[k] ELSE seq[k + 1]]

\* _update_next_run_time: the new next_batch_run
update_next_run_time_from_now(last, time) == Some(time + check_interval_minutes)

update_next_run_time(last, time) ==
    IF last # None
    THEN Some(last[1] + check_interval_minutes)
    ELSE Some(time + check_interval_minutes)

\* whether the executor takes one more instance of the job
CanSubmit_always(running) == TRUE

CanSubmit(running) == running < max_instances

\* a send_system_alert call; at is the batch_start its message names, if any
Alert(alert_type, at) == [alert_type |-> alert_type, at |-> at]

Starts == Cardinality({k \in DOMAIN system_alerts : system_alerts[k].alert_type = "success"})

InitScheduler ==
    /\ is_running = FALSE
    /\ last_batch_run = None
    /\ next_batch_run = None
    /\ utcnow = 0
    /\ next_fire_time = None
    /\ jobs = <<>>
    /\ manual = <<>>
    /\ system_alerts = <<>>
    /\ last_firing = None
    /\ skipped = 0
    /\ manual_results = <<>>
    /\ last_call = "none"
    /\ scheduler_jobs = {}
    /\ scheduler_running = FALSE

\* the rest of the program, untouched by the scheduler actions
ProgramFrame == UNCHANGED <<pure_vars, store_vars, batch_vars, ghost_vars, keepa_vars, runs>>

\* the same, and the timer scheduler as it was: what every call but start()
\* and stop() leaves alone
SchedulerFrame == ProgramFrame /\ UNCHANGED <<scheduler_jobs, scheduler_running>>

\* the ids of the add_job calls of start(), in the order of the calls
JobIds == <<"main_monitoring", "daily_summary", "data_cleanup", "health_check">>

\* time passes, up to the next firing at most; a firing that is due is dealt
\* with before time moves on
Tick ==
    /\ utcnow < Horizon
    /\ is_running => next_fire_time[1] > utcnow
    /\ utcnow' = IF is_running /\ next_fire_time[1] < utcnow + check_interval_minutes
                 THEN next_fire_time[1]
                 ELSE utcnow + check_interval_minutes
    /\ UNCHANGED <<is_running, last_batch_run, next_batch_run, next_fire_time, jobs, manual,
                   system_alerts, last_firing, skipped, manual_results>>
    /\ UNCHANGED last_call
    /\ SchedulerFrame

\* start(): registers the job, sets is_running, computes next_batch_run and
\* sends the startup alert
Start ==
    /\ ~is_running
    /\ Starts < MaxStarts
    /\ is_running' = TRUE
    /\ next_fire_time' = Some(utcnow + check_interval_minutes)
    /\ next_batch_run' = update_next_run_time(last_batch_run, utcnow)
    /\ system_alerts' = Append(system_alerts, Alert("success", None))
    /\ last_call' = "start"
    /\ scheduler_jobs' = scheduler_jobs \cup {JobIds[k] : k \in 1..Len(JobIds)}
    /\ scheduler_running' = TRUE
    /\ UNCHANGED <<last_batch_run, utcnow, jobs, manual, last_firing, skipped, manual_results>>
    /\ ProgramFrame

\* start() that raises: one of the add_job calls or scheduler.start() raises,
\* the except clause logs and raises again.  The add_job calls that returned
\* before it are not undone, and is_running = True was not reached; nothing
\* after that assignment raises (the Slack alert has its own except clause).
\* raised_at is the call that raised: 1..4 an add_job, 5 scheduler.start().
StartRaises ==
    /\ ~is_running
    /\ \E raised_at \in 1..(Len(JobIds) + 1) :
          scheduler_jobs' = scheduler_jobs \cup {JobIds[k] : k \in 1..(raised_at - 1)}
    /\ last_call' = "start_raised"
    /\ UNCHANGED <<is_running, last_batch_run, next_batch_run, utcnow, next_fire_time, jobs, manual,
                   system_alerts, last_firing, skipped, manual_results, scheduler_running>>
    /\ ProgramFrame

\* stop(): scheduler.shutdown(wait=True), then is_running = False and the
\* shutdown alert.  stop() is a coroutine of the event loop the job runs on
\* and does not await between the two: an instance in flight makes no step
\* before is_running is False.  What becomes of that instance is the
\* executor's choice: it is cancelled (JobCancelled) or it runs on.
Stop ==
    /\ is_running
    /\ is_running' = FALSE
    /\ next_fire_time' = None
    /\ system_alerts' = Append(system_alerts, Alert("warning", None))
    /\ last_call' = "stop"
    /\ scheduler_jobs' = {}
    /\ scheduler_running' = FALSE
    /\ UNCHANGED <<last_batch_run, next_batch_run, utcnow, jobs, manual, last_firing, skipped,
                   manual_results>>
    /\ ProgramFrame

\* stop() that raises: scheduler.shutdown(wait=True) raises before
\* is_running = False, the except clause logs and raises again.  Nothing after
\* the assignment raises: send_system_alert returns False on every failure.
StopRaises ==
    /\ is_running
    /\ last_call' = "stop_raised"
    /\ UNCHANGED <<is_running, last_batch_run, next_batch_run, utcnow, next_fire_time, jobs, manual,
                   system_alerts, last_firing, skipped, manual_results, scheduler_jobs,
                   scheduler_running>>
    /\ ProgramFrame

\* start() while running: the warning is logged and the call returns
StartWhileRunning ==
    /\ is_running
    /\ last_call' = "start_ignored"
    /\ UNCHANGED <<is_running, last_batch_run, next_batch_run, utcnow, next_fire_time, jobs, manual,
                   system_alerts, last_firing, skipped, manual_results>>
    /\ SchedulerFrame

\* stop() while stopped: the warning is logged and the call returns
StopWhileStopped ==
    /\ ~is_running
    /\ last_call' = "stop_ignored"
    /\ UNCHANGED <<is_running, last_batch_run, next_batch_run, utcnow, next_fire_time, jobs, manual,
                   system_alerts, last_firing, skipped, manual_results>>
    /\ SchedulerFrame

\* an instance of the job started at a time for a run time, which stands for
\* a number of older run times too
Instance(at, run_time, coalesced) ==
    [batch_start |-> at, pc |-> "get_asins", run_time |-> run_time, coalesced |-> coalesced]

\* the job comes due and an instance of _run_monitoring_batch starts:
\* batch_start = datetime.utcnow()
FiringStarts ==
    /\ is_running
    /\ next_fire_time = Some(utcnow)
    /\ CanSubmit(Len(jobs))
    /\ jobs' = Append(jobs, Instance(utcnow, utcnow, 0))
    /\ next_fire_time' = Some(utcnow + check_interval_minutes)
    /\ UNCHANGED <<is_running, last_batch_run, next_batch_run, utcnow, manual, system_alerts,
                   last_firing, skipped, manual_results>>
    /\ UNCHANGED last_call
    /\ SchedulerFrame

\* the job comes due while max_instances instances are in flight: the run is
\* skipped
FiringSkipped ==
    /\ is_running
    /\ next_fire_time = Some(utcnow)
    /\ ~CanSubmit(Len(jobs))
    /\ skipped' = skipped + 1
    /\ next_fire_time' = Some(utcnow + check_interval_minutes)
    /\ UNCHANGED <<is_running, last_batch_run, next_batch_run, utcnow, jobs, manual, system_alerts,
                   last_firing, manual_results>>
    /\ UNCHANGED last_call
    /\ SchedulerFrame

\* the job is registered with coalesce=True
coalesce == TRUE

\* the job is registered with misfire_grace_time=300 (seconds), in minutes
misfire_grace_time == 5

\* how late the scheduler wakes when the event loop was held up
Lateness == {misfire_grace_time, misfire_grace_time + 1,
             check_interval_minutes + misfire_grace_time,
             check_interval_minutes + misfire_grace_time + 1}

\* the run times of the job that are due at a time, the oldest first
RunTimes(next, time) ==
    [k \in 1..(((time - next) \div check_interval_minutes) + 1) |->
        next + (k - 1) * check_interval_minutes]

\* the run times the scheduler hands to the executor
Coalesced(run_times) == IF coalesce THEN <<run_times[Len(run_times)]>> ELSE run_times

\* the executor runs a run time that is late by the grace time at most
WithinGrace_any_delay(run_time, time) == TRUE

WithinGrace(run_time, time) == time - run_time <= misfire_grace_time

\* the event loop is held up while the job is due: the scheduler wakes late
Oversleep ==
    /\ is_running
    /\ next_fire_time = Some(utcnow)
    /\ \E late \in Lateness :
          /\ utcnow + late <= Horizon + check_interval_minutes
          /\ utcnow' = utcnow + late
    /\ UNCHANGED <<is_running, last_batch_run, next_batch_run, next_fire_time, jobs, manual,
                   system_alerts, last_firing, skipped, manual_results>>
    /\ UNCHANGED last_call
    /\ SchedulerFrame

\* the scheduler wakes after the job came due: the due run times are
\* coalesced, those later than the grace time are dropped, and the job's next
\* run time follows the last due one
FiringLate ==
    /\ is_running
    /\ next_fire_time # None
    /\ next_fire_time[1] < utcnow
    /\ LET due == RunTimes(next_fire_time[1], utcnow)
           run_times == Coalesced(due)
           dropped == Cardinality({k \in DOMAIN run_times :
                                      ~WithinGrace(run_times[k], utcnow)})
       IN  /\ IF CanSubmit(Len(jobs))
              THEN /\ jobs' = jobs \o [k \in 1..(Len(run_times) - dropped) |->
                                          Instance(utcnow, run_times[dropped + k],
                                                   Len(due) - Len(run_times))]
                   /\ UNCHANGED skipped
              ELSE /\ skipped' = skipped + 1
                   /\ UNCHANGED jobs
           /\ next_fire_time' = Some(due[Len(due)] + check_interval_minutes)
    /\ UNCHANGED <<is_running, last_batch_run, next_batch_run, utcnow, manual, system_alerts,
                   last_firing, manual_results>>
    /\ UNCHANGED last_call
    /\ SchedulerFrame

Completed(job, how) == [batch_start |-> job.batch_start, how |-> how, finished_at |-> utcnow]

\* get_asins_to_check answers; an empty list ends the firing
JobGetsAsins ==
    /\ \E i \in DOMAIN jobs :
          /\ jobs[i].pc = "get_asins"
          /\ \E empty \in BOOLEAN :
                IF empty
                THEN /\ last_batch_run' = Some(jobs[i].batch_start)
                     /\ next_batch_run' = update_next_run_time(last_batch_run', utcnow)
                     /\ jobs' = Remove(jobs, i)
                     /\ last_firing' = Some(Completed(jobs[i], "empty"))
                ELSE /\ jobs' = [jobs EXCEPT ![i].pc = "process"]
                     /\ UNCHANGED <<last_batch_run, next_batch_run, last_firing>>
    /\ UNCHANGED <<is_running, utcnow, next_fire_time, manual, system_alerts, skipped,
                   manual_results>>
    /\ UNCHANGED last_call
    /\ SchedulerFrame

\* process_batch returns: the timing is updated and, for five changes or more,
\* the high-activity alert is sent
JobBatchReturns ==
    /\ \E i \in DOMAIN jobs :
          /\ jobs[i].pc = "process"
          /\ last_batch_run' = Some(jobs[i].batch_start)
          /\ next_batch_run' = update_next_run_time(last_batch_run', utcnow)
          /\ \E changes_detected \in {0, 5} :
                system_alerts' = IF changes_detected >= 5
                                 THEN Append(system_alerts, Alert("info", Some(jobs[i].batch_start)))
                                 ELSE system_alerts
          /\ jobs' = Remove(jobs, i)
          /\ last_firing' = Some(Completed(jobs[i], "returned"))
    /\ UNCHANGED <<is_running, utcnow, next_fire_time, manual, skipped, manual_results>>
    /\ UNCHANGED last_call
    /\ SchedulerFrame

JobBatchRaises_propagates ==
    /\ \E i \in DOMAIN jobs :
          /\ jobs[i].pc = "process"
          /\ jobs' = Remove(jobs, i)
          /\ last_firing' = Some(Completed(jobs[i], "raised"))
    /\ UNCHANGED <<is_running, last_batch_run, next_batch_run, utcnow, next_fire_time, manual,
                   system_alerts, skipped, manual_results>>
    /\ UNCHANGED last_call
    /\ SchedulerFrame

\* process_batch raises: the except branch sends the error alert
JobBatchRaises ==
    /\ \E i \in DOMAIN jobs :
          /\ jobs[i].pc = "process"
          /\ system_alerts' = Append(system_alerts, Alert("error", Some(jobs[i].batch_start)))
          /\ jobs' = [jobs EXCEPT ![i].pc = "failed"]
    /\ UNCHANGED <<is_running, last_batch_run, next_batch_run, utcnow, next_fire_time, manual,
                   last_firing, skipped, manual_results>>
    /\ UNCHANGED last_call
    /\ SchedulerFrame

\* the except branch, after the alert: the timing is updated
JobFailureRecorded ==
    /\ \E i \in DOMAIN jobs :
          /\ jobs[i].pc = "failed"
          /\ last_batch_run' = Some(jobs[i].batch_start)
          /\ next_batch_run' = update_next_run_time(last_batch_run', utcnow)
          /\ jobs' = Remove(jobs, i)
          /\ last_firing' = Some(Completed(jobs[i], "raised"))
    /\ UNCHANGED <<is_running, utcnow, next_fire_time, manual, system_alerts, skipped,
                   manual_results>>
    /\ UNCHANGED last_call
    /\ SchedulerFrame

\* the instance in flight when stop() shut the executor down is cancelled: it
\* ends at the await it was suspended in, with no alert and no timing update
JobCancelled ==
    /\ ~is_running
    /\ \E i \in DOMAIN jobs : jobs' = Remove(jobs, i)
    /\ UNCHANGED <<is_running, last_batch_run, next_batch_run, utcnow, next_fire_time, manual,
                   system_alerts, last_firing, skipped, manual_results>>
    /\ UNCHANGED last_call
    /\ SchedulerFrame

\* AsinTracker.get_asins_to_check: the rows of the query, or the empty list
\* when the query raised; the rows are counted, not listed
get_asins_to_check(rows, raised) == IF raised THEN 0 ELSE rows

\* the dict trigger_manual_batch returns for an empty work list
NoAsinsResult == [success |-> TRUE, error |-> None, asins_processed |-> Some(0)]

\* the dict trigger_manual_batch returns after process_batch returned
BatchResultDict(asins_processed) ==
    [success |-> TRUE, error |-> None, asins_processed |-> Some(asins_processed)]

\* the dict of the except branch of trigger_manual_batch
FailureDict == [success |-> FALSE, error |-> Some("str(e)"), asins_processed |-> None]

\* a completed trigger_manual_batch call: what happened in it and its answer
ManualCompleted(call, batch_raised, result) ==
    [fetch_raised |-> call.fetch_raised, rows |-> call.rows,
     batch_raised |-> batch_raised, result |-> result]

\* trigger_manual_batch is called
ManualTrigger ==
    /\ Len(manual) + Len(manual_results) < MaxManual
    /\ manual' = Append(manual, [pc |-> "get_asins", fetch_raised |-> FALSE, rows |-> 0])
    /\ UNCHANGED <<is_running, last_batch_run, next_batch_run, utcnow, next_fire_time, jobs,
                   system_alerts, last_firing, skipped, manual_results>>
    /\ UNCHANGED last_call
    /\ SchedulerFrame

\* get_asins_to_check answers; for an empty list trigger_manual_batch returns
ManualGetsAsins ==
    /\ \E i \in DOMAIN manual :
          /\ manual[i].pc = "get_asins"
          /\ \E rows \in 0..1, raised \in BOOLEAN :
                LET call == [manual[i] EXCEPT !.fetch_raised = raised,
                                              !.rows = get_asins_to_check(rows, raised)]
                IN  IF call.rows = 0
                    THEN /\ manual' = Remove(manual, i)
                         /\ manual_results' =
                                Append(manual_results, ManualCompleted(call, FALSE, NoAsinsResult))
                    ELSE /\ manual' = [manual EXCEPT ![i] = [call EXCEPT !.pc = "process"]]
                         /\ UNCHANGED manual_results
    /\ UNCHANGED <<is_running, last_batch_run, next_batch_run, utcnow, next_fire_time, jobs,
                   system_alerts, last_firing, skipped>>
    /\ UNCHANGED last_call
    /\ SchedulerFrame

ManualBatchEnds_updates_timing ==
    /\ \E i \in DOMAIN manual :
          /\ manual[i].pc = "process"
          /\ manual' = Remove(manual, i)
          /\ \E batch_raised \in BOOLEAN :
                manual_results' =
                    Append(manual_results,
                           ManualCompleted(manual[i], batch_raised,
                                           IF batch_raised THEN FailureDict
                                           ELSE BatchResultDict(manual[i].rows)))
    /\ last_batch_run' = Some(utcnow)
    /\ next_batch_run' = update_next_run_time(last_batch_run', utcnow)
    /\ UNCHANGED <<is_running, utcnow, next_fire_time, jobs, system_alerts, last_firing, skipped>>
    /\ UNCHANGED last_call
    /\ SchedulerFrame

\* process_batch returns, or raises and the except branch answers
\* {"success": False}
ManualBatchEnds ==
    /\ \E i \in DOMAIN manual :
          /\ manual[i].pc = "process"
          /\ manual' = Remove(manual, i)
          /\ \E batch_raised \in BOOLEAN :
                manual_results' =
                    Append(manual_results,
                           ManualCompleted(manual[i], batch_raised,
                                           IF batch_raised THEN FailureDict
                                           ELSE BatchResultDict(manual[i].rows)))
    /\ UNCHANGED <<is_running, last_batch_run, next_batch_run, utcnow, next_fire_time, jobs,
                   system_alerts, last_firing, skipped>>
    /\ UNCHANGED last_call
    /\ SchedulerFrame

\* the scheduler once started, with trigger_manual_batch
NextScheduler ==
    \/ Tick
    \/ Start
    \/ FiringStarts
    \/ FiringSkipped
    \/ JobGetsAsins
    \/ JobBatchReturns
    \/ JobBatchRaises
    \/ JobFailureRecorded
    \/ ManualTrigger
    \/ ManualGetsAsins
    \/ ManualBatchEnds

\* ---------------------------------------- KeepaService (keepa_service.py)
\* get_products_batch and its rate limiter, called by the scheduled batch,
\* the manual batch and the health probe (specification SpecProvider).  Time
\* is in half seconds.

\* self.min_request_interval = 1.0 (seconds), in half seconds
min_request_interval == 2

\* if len(asins) > 100: raise ValueError
max_asins_per_request == 100

Callers == {"scheduled", "manual", "health"}

\* the numbers of ASINs the callers ask for; the health probe asks for one
BatchSizes(caller) ==
    IF caller = "health" THEN {1} ELSE {1, max_asins_per_request, max_asins_per_request + 1}

Idle == [pc |-> "idle", asins |-> 0, wake |-> 0]

Request(caller, at, asins) == [caller |-> caller, at |-> at, asins |-> asins]

NoBatchRun ==
    [pc |-> "idle", asins |-> 0, wake |-> 0, processed |-> 0, requests_before |-> 0,
     last_before |-> 0]

\* time.time() is far from the 0 that last_request_time starts at
InitKeepa ==
    /\ time_time = min_request_interval
    /\ last_request_time = 0
    /\ callers = [c \in Callers |-> Idle]
    /\ requests = <<>>
    /\ batch_run = NoBatchRun

\* the rest of the program, untouched by the provider client
KeepaFrame == UNCHANGED <<pure_vars, store_vars, batch_vars, ghost_vars, sched_vars, runs>>

\* _enforce_rate_limit up to its await: the sleep needed, 0 for none
sleep_time(current_time, last) ==
    IF current_time - last < min_request_interval
    THEN min_request_interval - (current_time - last)
    ELSE 0

Calls == Len(requests) + Cardinality({c \in Callers : callers[c].pc # "idle"})

\* get_products_batch is called: the list is checked, then _enforce_rate_limit
\* either goes to sleep or sets last_request_time, and the request is sent
GetProductsBatch ==
    /\ Calls < MaxRequests
    /\ \E c \in Callers : \E asins \in BatchSizes(c) :
          /\ callers[c].pc = "idle"
          /\ IF asins > max_asins_per_request
             THEN /\ callers' = [callers EXCEPT ![c] = [pc |-> "rejected", asins |-> asins,
                                                         wake |-> 0]]
                  /\ UNCHANGED <<last_request_time, requests>>
             ELSE IF sleep_time(time_time, last_request_time) > 0
             THEN /\ callers' =
                        [callers EXCEPT ![c] =
                            [pc |-> "sleeping", asins |-> asins,
                             wake |-> time_time + sleep_time(time_time, last_request_time)]]
                  /\ UNCHANGED <<last_request_time, requests>>
             ELSE /\ last_request_time' = time_time
                  /\ requests' = Append(requests, Request(c, time_time, asins))
                  /\ callers' = [callers EXCEPT ![c] = [pc |-> "requesting", asins |-> asins,
                                                         wake |-> 0]]
    /\ UNCHANGED <<time_time, batch_run>>
    /\ KeepaFrame

\* asyncio.sleep returns: last_request_time is set and the request is sent
SleepReturns ==
    /\ \E c \in Callers :
          /\ callers[c].pc = "sleeping"
          /\ callers[c].wake <= time_time
          /\ last_request_time' = time_time
          /\ requests' = Append(requests, Request(c, time_time, callers[c].asins))
          /\ callers' = [callers EXCEPT ![c].pc = "requesting"]
    /\ UNCHANGED <<time_time, batch_run>>
    /\ KeepaFrame

\* the provider answers, or the request fails, or the ValueError reaches the
\* caller: get_products_batch is over
CallEnds ==
    /\ \E c \in Callers :
          /\ callers[c].pc \in {"requesting", "rejected"}
          /\ callers' = [callers EXCEPT ![c] = Idle]
    /\ UNCHANGED <<time_time, last_request_time, requests, batch_run>>
    /\ KeepaFrame

\* half a second passes
ClockTicks ==
    /\ time_time < min_request_interval + MaxSeconds
    /\ time_time' = time_time + 1
    /\ UNCHANGED <<last_request_time, callers, requests>>
    /\ KeepaFrame
    /\ batch_run' = batch_run

NextProvider ==
    \/ GetProductsBatch
    \/ SleepReturns
    \/ CallEnds
    \/ ClockTicks

\* --------------- process_batch and its one get_products_batch call (SpecFetch)

\* the lengths of the lists process_batch is called with
ListSizes == {1, 2, max_asins_per_request, max_asins_per_request + 1}

\* if len(asins) > 100: raise ValueError
Oversized_never(asins) == FALSE

Oversized(asins) == asins > max_asins_per_request

\* the requests this run has sent
Sent == {k \in DOMAIN requests : k > batch_run.requests_before}

\* process_batch is called with a list of tracked items
BatchCalled ==
    /\ batch_run.pc = "idle"
    /\ Len(requests) < MaxRequests
    /\ \E asins \in ListSizes :
          batch_run' = [pc |-> "called", asins |-> asins, wake |-> 0, processed |-> 0,
                        requests_before |-> Len(requests),
                        last_before |-> last_request_time]
    /\ UNCHANGED <<time_time, last_request_time, callers, requests>>
    /\ KeepaFrame

\* get_products_batch refuses the list
BatchFetchRejected ==
    /\ batch_run.pc = "called"
    /\ Oversized(batch_run.asins)
    /\ batch_run' = [batch_run EXCEPT !.pc = "rejected"]
    /\ UNCHANGED <<time_time, last_request_time, callers, requests>>
    /\ KeepaFrame

\* _enforce_rate_limit goes to sleep
BatchFetchSleeps ==
    /\ batch_run.pc = "called"
    /\ ~Oversized(batch_run.asins)
    /\ sleep_time(time_time, last_request_time) > 0
    /\ batch_run' = [batch_run EXCEPT
          !.pc = "sleeping",
          !.wake = time_time + sleep_time(time_time, last_request_time)]
    /\ UNCHANGED <<time_time, last_request_time, callers, requests>>
    /\ KeepaFrame

\* _enforce_rate_limit has nothing to wait for: the one request for the whole
\* list is sent
BatchFetchSends ==
    /\ batch_run.pc = "called"
    /\ ~Oversized(batch_run.asins)
    /\ sleep_time(time_time, last_request_time) = 0
    /\ last_request_time' = time_time
    /\ requests' = Append(requests, Request("scheduled", time_time, batch_run.asins))
    /\ batch_run' = [batch_run EXCEPT !.pc = "requesting"]
    /\ UNCHANGED <<time_time, callers>>
    /\ KeepaFrame

\* asyncio.sleep returns and the request is sent
BatchFetchWakes ==
    /\ batch_run.pc = "sleeping"
    /\ batch_run.wake <= time_time
    /\ last_request_time' = time_time
    /\ requests' = Append(requests, Request("scheduled", time_time, batch_run.asins))
    /\ batch_run' = [batch_run EXCEPT !.pc = "requesting"]
    /\ UNCHANGED <<time_time, callers>>
    /\ KeepaFrame

\* the provider answers and process_batch enters its loop
BatchFetchAnswered ==
    /\ batch_run.pc = "requesting"
    /\ batch_run' = [batch_run EXCEPT !.pc = "loop"]
    /\ UNCHANGED <<time_time, last_request_time, callers, requests>>
    /\ KeepaFrame

\* the request fails
BatchFetchFails ==
    /\ batch_run.pc = "requesting"
    /\ batch_run' = [batch_run EXCEPT !.pc = "failed"]
    /\ UNCHANGED <<time_time, last_request_time, callers, requests>>
    /\ KeepaFrame

\* the loop deals with the next item of the list
BatchItemProcessed ==
    /\ batch_run.pc = "loop"
    /\ batch_run.processed < batch_run.asins
    /\ batch_run' = [batch_run EXCEPT !.processed = @ + 1]
    /\ UNCHANGED <<time_time, last_request_time, callers, requests>>
    /\ KeepaFrame

\* process_batch returns its result, or re-raises what get_products_batch
\* raised
BatchEnds ==
    /\ \/ batch_run.pc = "loop" /\ batch_run.processed = batch_run.asins
       \/ batch_run.pc \in {"rejected", "failed"}
    /\ batch_run' = NoBatchRun
    /\ UNCHANGED <<time_time, last_request_time, callers, requests>>
    /\ KeepaFrame

NextFetch ==
    \/ BatchCalled
    \/ BatchFetchRejected
    \/ BatchFetchSleeps
    \/ BatchFetchSends
    \/ BatchFetchWakes
    \/ BatchFetchAnswered
    \/ BatchFetchFails
    \/ BatchItemProcessed
    \/ BatchEnds
    \/ ClockTicks

\* ------------------- a scheduled and a manual batch run at once (SpecRace)
\* _run_monitoring_batch and trigger_manual_batch both call process_batch; no
\* lock or flag keeps one from starting while the other is in flight.  Both
\* runs have selected the same item; every request goes through.

Runs == {"scheduled", "manual"}

RaceAsin == "B000000001"

NotRunning ==
    [pc |-> "idle", product |-> None, current_state |-> None, current_badges |-> <<>>,
     pending |-> <<>>, changes |-> <<>>, to_notify |-> <<>>]

InitRuns == runs = [r \in Runs |-> NotRunning]

RaceFrame == UNCHANGED <<pure_vars, batch_vars, ghost_vars, sched_vars, keepa_vars>>

\* the run starts and the provider answers with the item's record
RunStarts_exclusive(r) ==
    /\ \A other \in Runs : runs[other].pc \in {"idle", "done"}
    /\ runs[r].pc = "idle"
    /\ \E product \in BatchProducts(RaceAsin) :
          /\ product.last_update = None
          /\ runs' = [runs EXCEPT ![r] = [@ EXCEPT !.pc = "get_state",
                                                  !.product = Some(product)]]
    /\ UNCHANGED store_vars
    /\ RaceFrame

RunStarts(r) ==
    /\ runs[r].pc = "idle"
    /\ \E product \in BatchProducts(RaceAsin) :
          /\ product.last_update = None
          /\ runs' = [runs EXCEPT ![r] = [@ EXCEPT !.pc = "get_state",
                                                  !.product = Some(product)]]
    /\ UNCHANGED store_vars
    /\ RaceFrame

\* _process_single_asin: get_asin_current_state, extract and compare
RunGetsCurrentState(r) ==
    /\ runs[r].pc = "get_state"
    /\ LET product == runs[r].product[1]
           current_state == get_asin_current_state(asin_current_state, RaceAsin, TRUE)
           current_badges == extract_bestseller_badges(product)
           pending == changes_to_record(RaceAsin, current_state, current_badges, product, clock)
       IN  runs' = [runs EXCEPT ![r] =
                       [@ EXCEPT !.pc = IF pending # <<>> THEN "create" ELSE "write_state",
                                 !.current_state = current_state,
                                 !.current_badges = current_badges,
                                 !.pending = pending]]
    /\ UNCHANGED store_vars
    /\ RaceFrame

\* _create_change_record for the next gained or lost badge
RunCreatesChangeRecord(r) ==
    /\ runs[r].pc = "create"
    /\ LET change_data == Head(runs[r].pending)
           id == create_bestseller_change(bestseller_changes, change_data, TRUE)
           change == [change_data EXCEPT !.id = id[1]]
       IN  /\ bestseller_changes' =
                  create_bestseller_change_rows(bestseller_changes, change_data, TRUE)
           /\ runs' = [runs EXCEPT ![r] =
                          [@ EXCEPT !.pending = Tail(@),
                                    !.changes = Append(@, change),
                                    !.pc = IF Tail(runs[r].pending) = <<>>
                                           THEN "write_state" ELSE "create"]]
    /\ UNCHANGED <<asin_current_state, asin_history, last_checked_at, error_log, slack_messages>>
    /\ RaceFrame

\* _update_current_state or _create_current_state
RunWritesCurrentState(r) ==
    /\ runs[r].pc = "write_state"
    /\ asin_current_state' =
           update_asin_current_state(asin_current_state, RaceAsin,
                                     StateData(RaceAsin, runs[r].product[1],
                                               runs[r].current_badges), TRUE, TRUE)
    /\ runs' = [runs EXCEPT ![r].pc = "history"]
    /\ UNCHANGED <<asin_history, bestseller_changes, last_checked_at, error_log, slack_messages>>
    /\ RaceFrame

\* _create_history_record
RunWritesHistory(r) ==
    /\ runs[r].pc = "history"
    /\ asin_history' =
           create_history_record(asin_history,
                                 HistoryData(RaceAsin, runs[r].product[1],
                                             runs[r].current_badges, clock), TRUE)
    /\ runs' = [runs EXCEPT ![r].pc = "last_checked"]
    /\ UNCHANGED <<asin_current_state, bestseller_changes, last_checked_at, error_log,
                   slack_messages>>
    /\ RaceFrame

\* update_asin_last_checked; _process_single_asin returns its changes
RunUpdatesLastChecked(r) ==
    /\ runs[r].pc = "last_checked"
    /\ last_checked_at' = update_asin_last_checked(last_checked_at, RaceAsin, clock, TRUE)
    /\ runs' = [runs EXCEPT ![r] =
                   [@ EXCEPT !.to_notify = runs[r].changes,
                             !.pc = IF runs[r].changes # <<>> THEN "notify" ELSE "done"]]
    /\ UNCHANGED <<asin_current_state, asin_history, bestseller_changes, error_log,
                   slack_messages>>
    /\ RaceFrame

\* process_batch: _send_change_notification for the next change
RunSendsNotification(r) ==
    /\ runs[r].pc = "notify"
    /\ LET change == Head(runs[r].to_notify)
       IN  /\ slack_messages' =
                  send_bestseller_alert(slack_messages,
                                        SlackNotificationPayload(RaceAsin, change), "ok")
           /\ bestseller_changes' =
                  marked_after_send(bestseller_changes, change, clock, "ok", TRUE)
           /\ runs' = [runs EXCEPT ![r] =
                          [@ EXCEPT !.to_notify = Tail(@),
                                    !.pc = IF Tail(runs[r].to_notify) = <<>>
                                           THEN "done" ELSE "notify"]]
    /\ UNCHANGED <<asin_current_state, asin_history, last_checked_at, error_log>>
    /\ RaceFrame

NextRace ==
    \/ \E r \in Runs : RunStarts(r)
    \/ \E r \in Runs : RunGetsCurrentState(r)
    \/ \E r \in Runs : RunCreatesChangeRecord(r)
    \/ \E r \in Runs : RunWritesCurrentState(r)
    \/ \E r \in Runs : RunWritesHistory(r)
    \/ \E r \in Runs : RunUpdatesLastChecked(r)
    \/ \E r \in Runs : RunSendsNotification(r)

\* ------------------------------ KeepaService.estimate_cost (keepa_service.py)
\* int((tokens_needed / 1000) * 100) is float arithmetic: the quotient and the
\* product are each rounded to the nearest double, ties to even, and int()
\* cuts the fraction off.  A double is mant * 2^exp here, mant a list of bits,
\* the most significant first.

\* the significand of a Python float has 53 bits
Precision == 53

\* the bits the quotient is computed to before it is rounded
QuotientBits == 64

\* the arithmetic is done a limb of this many bits at a time
LimbBits == 16

RECURSIVE Bits(_)
Bits(n) == IF n = 0 THEN <<>> ELSE Append(Bits(n \div 2), n % 2)

\* n < 2^width as exactly width bits
ToBits(n, width) == [i \in 1..width |-> (n \div 2^(width - i)) % 2]

RECURSIVE FromBits(_)
FromBits(bits) ==
    IF bits = <<>> THEN 0
    ELSE 2 * FromBits(SubSeq(bits, 1, Len(bits) - 1)) + bits[Len(bits)]

Zeros(k) == [i \in 1..k |-> 0]

\* bits without its leading zeros
Strip(bits) ==
    LET ones == {i \in 1..Len(bits) : bits[i] = 1}
    IN  IF ones = {} THEN <<>>
        ELSE SubSeq(bits, CHOOSE i \in ones : \A j \in ones : i <= j, Len(bits))

\* bits + 1
Increment(bits) ==
    LET zeros == {i \in 1..Len(bits) : bits[i] = 0}
    IN  IF zeros = {} THEN <<1>> \o Zeros(Len(bits))
        ELSE LET last == Max(zeros)
             IN  SubSeq(bits, 1, last - 1) \o <<1>> \o Zeros(Len(bits) - last)

\* long division by d of the remainder rem followed by limbs limbs of zero
\* bits: the quotient bits and the remainder
RECURSIVE DivZeros(_, _, _)
DivZeros(rem, d, limbs) ==
    IF limbs = 0 THEN [q |-> <<>>, rem |-> rem]
    ELSE LET cur == rem * 2^LimbBits
             rest == DivZeros(cur % d, d, limbs - 1)
         IN  [q |-> ToBits(cur \div d, LimbBits) \o rest.q, rem |-> rest.rem]

\* bits * c + carry, a limb at a time from the low end
RECURSIVE MulBits(_, _, _)
MulBits(bits, c, carry) ==
    IF bits = <<>> THEN Bits(carry)
    ELSE LET k == IF Len(bits) < LimbBits THEN Len(bits) ELSE LimbBits
             v == FromBits(SubSeq(bits, Len(bits) - k + 1, Len(bits))) * c + carry
         IN  MulBits(SubSeq(bits, 1, Len(bits) - k), c, v \div 2^k) \o ToBits(v % 2^k, k)

\* bits rounded to Precision bits, to nearest and ties to even; inexact says
\* that bits is itself cut off.  shift is the number of bits dropped.
RoundBits(bits, inexact) ==
    IF Len(bits) <= Precision THEN [mant |-> bits, shift |-> 0]
    ELSE LET top == SubSeq(bits, 1, Precision)
             guard == bits[Precision + 1]
             sticky == inexact \/ \E i \in (Precision + 2)..Len(bits) : bits[i] = 1
             up == guard = 1 /\ (sticky \/ top[Precision] = 1)
             rounded == IF up THEN Increment(top) ELSE top
         IN  IF Len(rounded) > Precision
             THEN [mant |-> SubSeq(rounded, 1, Precision), shift |-> Len(bits) - Precision + 1]
             ELSE [mant |-> rounded, shift |-> Len(bits) - Precision]

\* n / d for ints n > 0 and d > 0: the double nearest to the quotient
true_divide(n, d) ==
    LET division == DivZeros(n % d, d, QuotientBits \div LimbBits)
        rounded == RoundBits(Strip(Bits(n \div d) \o division.q), division.rem # 0)
    IN  [mant |-> rounded.mant, exp |-> rounded.shift - QuotientBits]

\* x * c for a double x and an int c: the double nearest to the product
float_times_int(x, c) ==
    LET rounded == RoundBits(Strip(MulBits(x.mant, c, 0)), FALSE)
    IN  [mant |-> rounded.mant, exp |-> x.exp + rounded.shift]

\* int(x) for a double x >= 0
int_of_float(x) ==
    IF x.exp >= 0 THEN FromBits(x.mant \o Zeros(x.exp))
    ELSE IF Len(x.mant) + x.exp <= 0 THEN 0
    ELSE FromBits(SubSeq(x.mant, 1, Len(x.mant) + x.exp))

estimate_cost(asin_count) ==
    LET tokens_needed == asin_count
        cost_cents == IF tokens_needed = 0 THEN 0
                      ELSE int_of_float(float_times_int(true_divide(tokens_needed, 1000), 100))
    IN  Max({cost_cents, 1})

\* no record is fixed for the polls
RepeatIdle == repeat_product = None

\* the token counts of the cost harness
TokenCounts == 0..MaxTokens \cup {500, 2000}

CostCalled ==
    /\ ec_tokens \in TokenCounts
    /\ ec_cost = None
    /\ ec_reported = None

CostIdle ==
    /\ ec_tokens = 0
    /\ ec_cost = None
    /\ ec_reported = None

\* every variable but those of the cost harness
CostFrame ==
    UNCHANGED <<ex_product, ex_badges, df_previous, df_current, df_forward, df_backward,
                repeat_product,
                store_vars, batch_vars, ghost_vars, sched_vars, keepa_vars, runs>>

EstimateCost ==
    /\ ec_cost = None
    /\ ec_cost' = Some(estimate_cost(ec_tokens))
    /\ UNCHANGED <<ec_tokens, ec_reported>>
    /\ CostFrame

\* process_batch builds its result for a list of ec_tokens items:
\* estimated_cost_cents=keepa_service.estimate_cost(len(asins))
BatchResultCost ==
    /\ ec_reported = None
    /\ ec_tokens <= max_asins_per_request
    /\ ec_reported' = Some(estimate_cost(ec_tokens))
    /\ UNCHANGED <<ec_tokens, ec_cost>>
    /\ CostFrame

NextCost == EstimateCost \/ BatchResultCost

\* ------------------------------------------------ the two pure-function harnesses

ExtractInputs ==
    {Product("B000000001", sr, tree, None) :
        sr \in {None} \cup {Some(d) : d \in Dicts(RankData, MaxRanks)}, tree \in Trees}

ExtractCalled ==
    /\ ex_product \in ExtractInputs
    /\ ex_badges = None

ExtractBadges ==
    /\ ex_badges = None
    /\ ex_badges' = Some(extract_bestseller_badges(ex_product))
    /\ UNCHANGED <<ex_product, df_previous, df_current, df_forward, df_backward>>
    /\ UNCHANGED cost_vars
    /\ UNCHANGED <<store_vars, batch_vars, ghost_vars, sched_vars, keepa_vars, runs>>

DiffCalled ==
    /\ df_previous \in BadgeLists(MaxBadges)
    /\ df_current \in BadgeLists(MaxBadges)
    /\ df_forward = None
    /\ df_backward = None

CompareForward ==
    /\ df_forward = None
    /\ df_forward' = Some(compare_badges(df_previous, df_current))
    /\ UNCHANGED <<ex_product, ex_badges, df_previous, df_current, df_backward>>
    /\ UNCHANGED cost_vars
    /\ UNCHANGED <<store_vars, batch_vars, ghost_vars, sched_vars, keepa_vars, runs>>

CompareBackward ==
    /\ df_backward = None
    /\ df_backward' = Some(compare_badges(df_current, df_previous))
    /\ UNCHANGED <<ex_product, ex_badges, df_previous, df_current, df_forward>>
    /\ UNCHANGED cost_vars
    /\ UNCHANGED <<store_vars, batch_vars, ghost_vars, sched_vars, keepa_vars, runs>>

\* the harnesses at rest, for the specifications that do not use them
ExtractIdle ==
    /\ ex_product = Product("B000000001", None, <<>>, None)
    /\ ex_badges = None

DiffIdle ==
    /\ df_previous = <<>>
    /\ df_current = <<>>
    /\ df_forward = None
    /\ df_backward = None

\* the batch machinery at rest, for the harness specifications
BatchIdle == InitBatch /\ asin_current_state = [a \in Asins |-> None]

InitExtract == ExtractCalled /\ DiffIdle /\ BatchIdle /\ InitScheduler /\ InitKeepa /\ InitRuns
    /\ CostIdle /\ RepeatIdle

SpecExtract == InitExtract /\ [][ExtractBadges]_vars

NextDiff == CompareForward \/ CompareBackward

InitDiff == DiffCalled /\ ExtractIdle /\ BatchIdle /\ InitScheduler /\ InitKeepa /\ InitRuns
    /\ CostIdle /\ RepeatIdle

SpecDiff == InitDiff /\ [][NextDiff]_vars

\* ----------------------------------------------- the dispatcher harness
\* _send_change_notification called, any number of times and in any order, for
\* change records _create_change_record has created (specification
\* SpecDispatch); clock counts the dispatcher calls.

HarnessBadges == {BestSellerBadge("50", "Widgets", 1), BestSellerBadge("77", "Category 77", 1)}

\* _create_change_record creates a gained or a lost record
RecordChange ==
    /\ Len(bestseller_changes) < MaxEvents
    /\ \E asin \in Asins, badge \in HarnessBadges, change_type \in {"gained", "lost"} :
          LET change_data ==
                 IF change_type = "gained"
                 THEN ChangeData(asin, "gained", badge, None, Some(badge.rank), clock)
                 ELSE ChangeData(asin, "lost", badge, Some(1), None, clock)
          IN  bestseller_changes' =
                 create_bestseller_change_rows(bestseller_changes, change_data, TRUE)
    /\ UNCHANGED <<sched_vars, keepa_vars, runs>>
    /\ UNCHANGED <<pure_vars, asin_current_state, asin_history, last_checked_at, error_log,
                   slack_messages, batch_vars, ghost_vars>>

\* _send_change_notification(tracked_asin, change, product) for one of the
\* records
Dispatch ==
    /\ clock < MaxDispatches
    /\ \E i \in DOMAIN bestseller_changes, sent \in {"ok", "not_ok", "raised"},
          mark_ok \in BOOLEAN :
          LET change == bestseller_changes[i]
          IN  /\ slack_messages' =
                    send_bestseller_alert(slack_messages,
                                          SlackNotificationPayload(change.asin, change), sent)
              /\ bestseller_changes' =
                    marked_after_send(bestseller_changes, change, clock + 1, sent, mark_ok)
              /\ (sent # "ok" => mark_ok)
    /\ clock' = clock + 1
    /\ UNCHANGED <<sched_vars, keepa_vars, runs>>
    /\ UNCHANGED <<pure_vars, asin_current_state, asin_history, last_checked_at, error_log,
                   batch_vars, observed, transitions, faults, calls, provider_called>>

NextDispatch == RecordChange \/ Dispatch

InitDispatch == ExtractIdle /\ DiffIdle /\ BatchIdle /\ InitScheduler /\ InitKeepa /\ InitRuns
    /\ CostIdle /\ RepeatIdle

SpecDispatch == InitDispatch /\ [][NextDispatch]_vars

InitSchedulerSpec == ExtractIdle /\ DiffIdle /\ BatchIdle /\ InitScheduler /\ InitKeepa /\ InitRuns
    /\ CostIdle /\ RepeatIdle

SpecScheduler == InitSchedulerSpec /\ [][NextScheduler]_vars

\* the life cycle of the scheduler: start(), stop(), the calls that are
\* ignored, and the firings; without trigger_manual_batch
NextLifecycle ==
    \/ Tick
    \/ Start
    \/ Stop
    \/ StartWhileRunning
    \/ StopWhileStopped
    \/ FiringStarts
    \/ FiringSkipped
    \/ JobGetsAsins
    \/ JobBatchReturns
    \/ JobBatchRaises
    \/ JobFailureRecorded
    \/ JobCancelled
    \/ StartRaises
    \/ StopRaises

\* the scheduler whose wake-ups can be late
NextMisfire ==
    \/ Tick
    \/ Start
    \/ Oversleep
    \/ FiringStarts
    \/ FiringLate
    \/ FiringSkipped
    \/ JobGetsAsins
    \/ JobBatchReturns
    \/ JobBatchRaises
    \/ JobFailureRecorded

InitMisfire == ExtractIdle /\ DiffIdle /\ BatchIdle /\ InitScheduler /\ InitKeepa /\ InitRuns
    /\ CostIdle /\ RepeatIdle

SpecMisfire == InitMisfire /\ [][NextMisfire]_vars

InitProvider == ExtractIdle /\ DiffIdle /\ BatchIdle /\ InitScheduler /\ InitKeepa /\ InitRuns
    /\ CostIdle /\ RepeatIdle

SpecProvider == InitProvider /\ [][NextProvider]_vars

InitRace == ExtractIdle /\ DiffIdle /\ InitBatch /\ InitScheduler /\ InitKeepa /\ InitRuns
    /\ CostIdle /\ RepeatIdle

SpecRace == InitRace /\ [][NextRace]_vars

\* ------------------------ the same record in two polls in a row (SpecRepeat)

\* the item polled
RepeatAsin == "B000000001"

\* the provider answers every poll of the item with one and the same record
InitRepeat ==
    /\ ExtractIdle /\ DiffIdle /\ InitBatch /\ InitScheduler /\ InitKeepa /\ InitRuns /\ CostIdle
    /\ repeat_product \in {Some(p) : p \in BatchProducts(RepeatAsin)}

\* process_batch is called with the item
RepeatStartBatch == StartBatch /\ tracked_asins' = <<RepeatAsin>>

\* the provider answers with the record
RepeatFetchReturns == FetchReturns /\ product_lookup'[RepeatAsin] = repeat_product

\* the store accepts every call, the channel every notification
RepeatGetCurrentState == GetCurrentState /\ faults' = faults
RepeatCreateChangeRecord == CreateChangeRecord /\ faults' = faults
RepeatWriteCurrentState == WriteCurrentState /\ faults' = faults
RepeatWriteHistory == WriteHistory /\ faults' = faults
RepeatUpdateLastChecked == UpdateLastChecked /\ faults' = faults
RepeatSendChangeNotification == SendChangeNotification /\ faults' = faults
RepeatItemFailed == ItemFailed /\ faults' = faults

NextRepeat ==
    \/ RepeatStartBatch
    \/ RepeatFetchReturns
    \/ BeginItem
    \/ RepeatGetCurrentState
    \/ RepeatCreateChangeRecord
    \/ WriteCurrentStateRaises
    \/ RepeatWriteCurrentState
    \/ RepeatWriteHistory
    \/ RepeatUpdateLastChecked
    \/ RepeatSendChangeNotification
    \/ ItemSucceeded
    \/ RepeatItemFailed
    \/ FinishBatch

SpecRepeat == InitRepeat /\ [][NextRepeat]_vars

InitFetch == ExtractIdle /\ DiffIdle /\ BatchIdle /\ InitScheduler /\ InitKeepa /\ InitRuns
    /\ CostIdle /\ RepeatIdle

SpecFetch == InitFetch /\ [][NextFetch]_vars

InitCost ==
    /\ CostCalled /\ RepeatIdle /\ ExtractIdle /\ DiffIdle /\ BatchIdle /\ InitScheduler /\ InitKeepa /\ InitRuns

SpecCost == InitCost /\ [][NextCost]_vars

InitLifecycle == ExtractIdle /\ DiffIdle /\ BatchIdle /\ InitScheduler /\ InitKeepa /\ InitRuns
    /\ CostIdle /\ RepeatIdle

SpecLifecycle == InitLifecycle /\ [][NextLifecycle]_vars

Init == ExtractIdle /\ DiffIdle /\ InitBatch /\ InitScheduler /\ InitKeepa /\ InitRuns
    /\ CostIdle /\ RepeatIdle

Spec == Init /\ [][Next]_vars

\* ======================================================================
\* Properties
\* ======================================================================

\* the claim's own reading of "category c maps to a sequence of at least two
\* elements whose second element is 1"
HasRankOneEntry(product, c) ==
    /\ product.sales_ranks # None
    /\ \E i \in DOMAIN product.sales_ranks[1] :
          LET entry == product.sales_ranks[1][i]
          IN  /\ entry[1] = c
              /\ entry[2].isList
              /\ Len(entry[2].elems) >= 2
              /\ entry[2].elems[2] = 1

\* C2: extract_bestseller_badges returns a designation for category c exactly
\* when the rank mapping holds, for c, a list of at least two elements whose
\* second element is 1; an absent or empty mapping gives the empty list; a
\* malformed entry or another rank gives no designation, and the call returns.
C2_ExtractIffRankOne ==
    ex_badges # None =>
        LET out == ex_badges[1]
        IN  /\ \A c \in Cats : (c \in CategoryIds(out)) <=> HasRankOneEntry(ex_product, c)
            /\ Len(out) = Cardinality(CategoryIds(out))
            /\ \A i \in DOMAIN out : out[i].rank = 1
            /\ (ex_product.sales_ranks = None \/ ex_product.sales_ranks = Some(<<>>))
                  => out = <<>>

\* a mapping with one rank-1 entry and one entry whose first element, not its
\* second, is 1 has been extracted
C2_Witness ==
    /\ ex_badges # None
    /\ ex_product.sales_ranks = Some(<<<<"50", List(<<0, 1>>)>>, <<"77", List(<<1, 5>>)>>>>)
    /\ CategoryIds(ex_badges[1]) = {"50"}

\* C3: gained is the current designations whose id is not a previous id, lost
\* the previous designations whose id is not a current id, unchanged the
\* current designations whose id is on both sides; a category on both sides
\* under two names is in unchanged, and in neither gained nor lost.
C3_CompareByIdOnly ==
    df_forward # None =>
        LET r == df_forward[1]
            NotPrevious(b) == \A i \in DOMAIN df_previous : df_previous[i].category_id # b.category_id
            NotCurrent(b) == \A i \in DOMAIN df_current : df_current[i].category_id # b.category_id
            OnBothSides(b) == \E i \in DOMAIN df_previous : df_previous[i].category_id = b.category_id
        IN  /\ r.gained = SelectSeq(df_current, NotPrevious)
            /\ r.lost = SelectSeq(df_previous, NotCurrent)
            /\ r.unchanged = SelectSeq(df_current, OnBothSides)
            /\ \A i \in DOMAIN df_previous, j \in DOMAIN df_current :
                  (/\ df_previous[i].category_id = df_current[j].category_id
                   /\ df_previous[i].category_name # df_current[j].category_name)
                  => /\ df_current[j] \in Range(r.unchanged)
                     /\ df_current[j].category_id \notin CategoryIds(r.gained)
                     /\ df_current[j].category_id \notin CategoryIds(r.lost)

\* a comparison where category 50 is on both sides under two names
C3_Witness ==
    /\ df_forward # None
    /\ df_previous = <<BestSellerBadge("50", "Widgets", 1), BestSellerBadge("9", "Gadgets", 1)>>
    /\ df_current = <<BestSellerBadge("50", "Gadgets", 1)>>
    /\ df_forward[1].unchanged = <<BestSellerBadge("50", "Gadgets", 1)>>

\* C4: the category-id sets of gained, lost and unchanged are pairwise
\* disjoint and their union is previous.ids \cup current.ids.
C4_PartitionByCategoryId ==
    df_forward # None =>
        LET g == CategoryIds(df_forward[1].gained)
            l == CategoryIds(df_forward[1].lost)
            u == CategoryIds(df_forward[1].unchanged)
        IN  /\ g \cap l = {}
            /\ g \cap u = {}
            /\ l \cap u = {}
            /\ g \cup l \cup u = CategoryIds(df_previous) \cup CategoryIds(df_current)

\* a comparison whose three parts are all non-empty
C4_Witness ==
    /\ df_forward # None
    /\ df_forward[1].gained # <<>>
    /\ df_forward[1].lost # <<>>
    /\ df_forward[1].unchanged # <<>>

\* C5: the ids gained from A to B are the ids lost from B to A, and the ids
\* lost from A to B are the ids gained from B to A.
C5_DiffSymmetry ==
    (df_forward # None /\ df_backward # None) =>
        /\ CategoryIds(df_forward[1].gained) = CategoryIds(df_backward[1].lost)
        /\ CategoryIds(df_forward[1].lost) = CategoryIds(df_backward[1].gained)

\* both directions computed for two lists that differ both ways and overlap
C5_Witness ==
    /\ df_forward # None
    /\ df_backward # None
    /\ df_forward[1].gained # <<>>
    /\ df_backward[1].gained # <<>>
    /\ df_forward[1].unchanged # <<>>

\* ------------------------------------------------------------ batch runs

Count(seq, Test(_)) == Cardinality({i \in DOMAIN seq : Test(seq[i])})

\* the item processing in hand has read the prior state
StateRead ==
    pc \in {"create_changes", "write_state", "write_history", "last_checked", "notify",
            "item_error"}

\* the item processing in hand is past its change-record loop
ChangesRecorded == pc \in {"write_state", "write_history", "last_checked", "notify", "item_error"}

\* the bestseller_changes rows created by the item processing in hand
NewRows == {i \in DOMAIN bestseller_changes : i > item.rows_before}

\* C1: for every item and category, the persisted ChangeEvents and the
\* delivered notifications are at most as many as the polls at which the
\* category's rank-1 status actually changed, whether the CurrentState write
\* between two polls went through or failed softly.
C1_OncePerTransition ==
    \A a \in Asins, c \in Cats :
        LET ForPair(row) == row.asin = a /\ row.category_id = c
        IN  /\ Count(bestseller_changes, ForPair) <= transitions[<<a, c>>]
            /\ Count(slack_messages, ForPair) <= transitions[<<a, c>>]

\* C6: an item processing that found no prior state sets out to create no
\* change record, creates no bestseller_changes row, sends no notification and
\* returns an empty list, however many designations it extracted.
C6_FirstObservationNoChange ==
    (StateRead /\ item.current_state = None) =>
        /\ item.pending = <<>>
        /\ item.changes = <<>>
        /\ item.to_notify = <<>>
        /\ NewRows = {}
        /\ \A i \in DOMAIN calls :
              calls[i].poll = clock => calls[i].op \notin {"create_change", "notify"}

\* a first observation of two designations has written its state and history
\* rows and returned
C6_Witness ==
    /\ pc = "notify"
    /\ item.current_state = None
    /\ Len(item.current_badges) = 2
    /\ asin_current_state[item.asin] # None
    /\ asin_current_state[item.asin][1].bestseller_badges = item.current_badges
    /\ \E i \in DOMAIN calls : calls[i].poll = clock /\ calls[i].op = "write_history" /\ calls[i].ok

\* the rank a lost category has in the new mapping: the second element of its
\* entry, or None when it has no entry of at least two elements
StillRankedAt(product, c) ==
    IF \E i \in DOMAIN product.sales_ranks[1] :
          /\ product.sales_ranks[1][i][1] = c
          /\ product.sales_ranks[1][i][2].isList
          /\ Len(product.sales_ranks[1][i][2].elems) >= 2
    THEN Some((CHOOSE e \in Range(product.sales_ranks[1]) : e[1] = c)[2].elems[2])
    ELSE None

\* C7: with a prior state, once the change-record loop is over there is
\* exactly one new ChangeEvent per gained category (gained, previous_rank
\* null, new_rank 1), exactly one per lost category (lost, previous_rank 1,
\* new_rank the category's rank in the new mapping or null, never 1), and none
\* for any other category.
C7_OneEventPerChange ==
    (ChangesRecorded /\ item.current_state # None) =>
        LET previous == CategoryIds(item.current_state[1].bestseller_badges)
            current == RankOneCategories(item.product[1])
            RowsOf(c) == {i \in NewRows : bestseller_changes[i].category_id = c}
        IN  \A c \in Cats :
               IF c \in current \ previous
               THEN /\ Cardinality(RowsOf(c)) = 1
                    /\ \A i \in RowsOf(c) :
                          /\ bestseller_changes[i].change_type = "gained"
                          /\ bestseller_changes[i].previous_rank = None
                          /\ bestseller_changes[i].new_rank = Some(1)
               ELSE IF c \in previous \ current
               THEN /\ Cardinality(RowsOf(c)) = 1
                    /\ \A i \in RowsOf(c) :
                          /\ bestseller_changes[i].change_type = "lost"
                          /\ bestseller_changes[i].previous_rank = Some(1)
                          /\ bestseller_changes[i].new_rank = StillRankedAt(item.product[1], c)
                          /\ bestseller_changes[i].new_rank # Some(1)
               ELSE RowsOf(c) = {}

WriteSequence == {"create_change", "write_state", "write_history"}

\* C8: an item one of whose write-sequence calls (create ChangeEvent, upsert
\* CurrentState, append HistoryEntry) failed is not a successful check and its
\* last_checked_at is not updated.
C8_WriteFailureFailsItem ==
    \A i \in DOMAIN calls :
        (calls[i].op \in WriteSequence /\ ~calls[i].ok) =>
            \A j \in DOMAIN calls :
                calls[j].poll = calls[i].poll =>
                    /\ calls[j].op # "succeeded"
                    /\ ~(calls[j].op = "last_checked" /\ calls[j].ok)

\* the positions of the item list process_batch is done with
Disposed ==
    {k \in DOMAIN tracked_asins :
        \E i \in DOMAIN calls :
            /\ calls[i].asin = tracked_asins[k]
            /\ calls[i].op \in {"no_product", "succeeded", "log_error"}}

C10_MissingRecordsAreFailedChecks ==
    /\ (outcome.status = "raised") => (pc = "idle" /\ idx = 0)
    /\ (pc = "idle" /\ outcome.status = "returned") =>
          outcome.failed_checks >=
              Cardinality({k \in DOMAIN tracked_asins : product_lookup[tracked_asins[k]] = None})
    /\ \A i \in DOMAIN calls :
          product_lookup[calls[i].asin] = None => calls[i].op = "no_product"
    /\ \A k \in DOMAIN tracked_asins :
          (k < idx /\ product_lookup[tracked_asins[k]] = None) =>
              LET Miss(call) == call.asin = tracked_asins[k] IN Count(calls, Miss) = 1

\* a batch of two items has returned: one had no record, the other succeeded
C10_Witness ==
    /\ pc = "idle"
    /\ outcome.status = "returned"
    /\ Len(tracked_asins) = 2
    /\ Cardinality({k \in DOMAIN tracked_asins : product_lookup[tracked_asins[k]] = None}) = 1
    /\ outcome.failed_checks = 1
    /\ outcome.successful_checks = 1

\* ------------------------------------------------------- the dispatcher

\* the change with that id has been delivered to the channel
Delivered(change_id) ==
    \E k \in DOMAIN slack_messages : slack_messages[k].change_id = change_id

\* C11 as stated: a ChangeEvent is marked notification_sent exactly when the
\* channel confirmed the delivery of its notification.
C11_MarkedIffDelivered ==
    \A i \in DOMAIN bestseller_changes :
        bestseller_changes[i].notification_sent <=> Delivered(i)

\* a step of _send_change_notification for the next returned change
DispatchStep ==
    /\ pc = "notify"
    /\ item.to_notify # <<>>
    /\ item'.to_notify = Tail(item.to_notify)

\* what a dispatcher step does to the change record, the counter and the calls
DispatchStepMarksIffDeliveredAndAccepted ==
    LET change == Head(item.to_notify)
        delivered == slack_messages' # slack_messages
        last == calls'[Len(calls')]
        marked == [bestseller_changes EXCEPT ![change.id] =
                      [@ EXCEPT !.notification_sent = TRUE,
                                !.notification_sent_at = Some(clock),
                                !.notification_method = Some("slack")]]
    IN  /\ delivered <=> last.op = "mark"
        /\ ~delivered => last.op = "notify" /\ ~last.ok
        /\ bestseller_changes' =
              IF delivered /\ last.ok THEN marked ELSE bestseller_changes
        /\ counters'.notifications_sent =
              counters.notifications_sent + (IF delivered THEN 1 ELSE 0)

\* C11, amended: the dispatcher issues the mark (notification_sent = true,
\* timestamp, method "slack") exactly when the channel confirmed the delivery;
\* the ChangeEvent is marked exactly when the delivery was confirmed and the
\* store accepted the mark, and a marked event is always a delivered one; when
\* the send fails or raises the dispatcher returns false and the event stays
\* unmarked.
C11_MarkedIffDeliveredAndMarkAccepted ==
    /\ [](\A i \in DOMAIN bestseller_changes :
             bestseller_changes[i].notification_sent =>
                 /\ Delivered(i)
                 /\ bestseller_changes[i].notification_sent_at # None
                 /\ bestseller_changes[i].notification_method = Some("slack"))
    /\ [][DispatchStep => DispatchStepMarksIffDeliveredAndAccepted]_vars

\* one change is delivered and marked with its timestamp and method, another
\* was created and is not delivered and not marked
C11_Witness ==
    \E i, j \in DOMAIN bestseller_changes :
        /\ Delivered(i)
        /\ bestseller_changes[i].notification_sent
        /\ bestseller_changes[i].notification_sent_at # None
        /\ ~Delivered(j)
        /\ ~bestseller_changes[j].notification_sent
        /\ \E k \in DOMAIN calls : calls[k].op = "notify" /\ ~calls[k].ok

\* C13: every notification attempt of a batch run comes after a created
\* ChangeEvent record, a CurrentState write and a HistoryEntry write of the
\* same item processing that went through, and no notification is attempted
\* for an item whose processing raised.
C13_PersistedBeforeNotified ==
    \A j \in DOMAIN calls :
        calls[j].op = "notify" =>
            LET Before(op) == \E i \in 1..(j - 1) :
                                 /\ calls[i].poll = calls[j].poll
                                 /\ calls[i].op = op
                                 /\ calls[i].ok
            IN  /\ Before("create_change")
                /\ Before("write_state")
                /\ Before("write_history")
                /\ \A i \in DOMAIN calls :
                      calls[i].poll = calls[j].poll => calls[i].op # "raised"

\* the create calls of the item processing in hand that returned an id
CreatedInHand ==
    {i \in DOMAIN calls :
        calls[i].poll = clock /\ calls[i].op = "create_change" /\ calls[i].ok}

\* the events of a list are rows of bestseller_changes of the item in hand
Persisted(changes) ==
    \A k \in DOMAIN changes :
        /\ changes[k].id \in DOMAIN bestseller_changes
        /\ bestseller_changes[changes[k].id].id = changes[k].id
        /\ bestseller_changes[changes[k].id].asin = item.asin
        /\ bestseller_changes[changes[k].id].category_id = changes[k].category_id
        /\ bestseller_changes[changes[k].id].change_type = changes[k].change_type

\* C14: every ChangeEvent the item processor collects and returns is a row of
\* bestseller_changes with its id; the events collected are as many as the
\* create calls that returned an id, and every notification attempted or
\* delivered is for such a row.
C14_ReturnedEventsArePersisted ==
    /\ Persisted(item.changes)
    /\ Persisted(item.to_notify)
    /\ (StateRead /\ pc # "create_changes") => Len(item.changes) = Cardinality(CreatedInHand)
    /\ LET Notify(call) == call.poll = clock /\ call.op = "notify"
       IN  Count(calls, Notify) <= Cardinality(CreatedInHand)
    /\ \A k \in DOMAIN slack_messages :
          /\ slack_messages[k].change_id \in DOMAIN bestseller_changes
          /\ bestseller_changes[slack_messages[k].change_id].asin = slack_messages[k].asin
          /\ bestseller_changes[slack_messages[k].change_id].category_id =
                slack_messages[k].category_id

\* of two changes of an item one create call returned no id; the other change
\* was returned and its notification attempted
C14_Witness ==
    /\ pc = "notify"
    /\ Len(item.changes) = 1
    /\ item.to_notify = <<>>
    /\ \E i \in DOMAIN calls :
          calls[i].poll = clock /\ calls[i].op = "create_change" /\ ~calls[i].ok
    /\ \E i \in DOMAIN calls : calls[i].poll = clock /\ calls[i].op = "notify"

\* C15: process_batch called with an empty list does not call the provider
\* and returns a result whose counts are all zero.
C15_EmptyListSkipsProvider ==
    tracked_asins = <<>> =>
        /\ ~provider_called
        /\ outcome.status # "raised"
        /\ outcome.status = "returned" => outcome = Outcome("returned", 0, ZeroCounters)

\* C16: when the provider call of a batch fails, no item of the batch is
\* processed (no call is made for any of them) and every item of the batch is
\* marked failed.
C16_ProviderFailureFailsEveryItem ==
    (pc = "idle" /\ outcome.status = "raised") =>
        /\ calls = <<>>
        /\ idx = 0
        /\ outcome.failed_checks = Len(tracked_asins)

\* the deliveries the channel confirmed for a change record
DeliveriesOf(messages, change_id) ==
    Cardinality({k \in DOMAIN messages : messages[k].change_id = change_id})

\* C12: once a ChangeEvent is marked notification_sent, no dispatcher call
\* delivers a notification for it again: a second call is a no-op.
C12_NoDeliveryOnceMarked ==
    [][\A i \in DOMAIN bestseller_changes :
          bestseller_changes[i].notification_sent =>
              DeliveriesOf(slack_messages', i) = DeliveriesOf(slack_messages, i)]_vars

\* ---------------------------------------------- the scheduler (SpecScheduler)

\* C17: at most one instance of the main monitoring job is in flight at any
\* time; a firing that comes due while one is in flight starts no second one.
C17_AtMostOneInstance == Len(jobs) <= 1

\* a firing came due while the previous one was still in flight
C17_Witness ==
    /\ skipped >= 1
    /\ Len(jobs) = 1
    /\ jobs[1].batch_start < utcnow

\* C18: after every completed scheduled firing (returned, raised, or empty
\* work list) last_batch_run is that firing's batch_start and next_batch_run
\* is last_batch_run plus the interval.
C18_TimingAfterEveryFiring ==
    last_firing # None =>
        /\ last_batch_run = Some(last_firing[1].batch_start)
        /\ next_batch_run = Some(last_batch_run[1] + check_interval_minutes)

\* a firing whose batch raised has completed, later than it started
C18_Witness ==
    /\ last_firing # None
    /\ last_firing[1].how = "raised"
    /\ last_firing[1].finished_at > last_firing[1].batch_start

\* the error alerts sent for the firing that started at a time
ErrorAlertsOf(batch_start) ==
    Cardinality({k \in DOMAIN system_alerts :
                    /\ system_alerts[k].alert_type = "error"
                    /\ system_alerts[k].at = Some(batch_start)})

\* a step of an instance of the job
JobStep == jobs' # jobs /\ Len(jobs') <= Len(jobs)

C20_ManualBatchLeavesTimingAlone ==
    [][(manual' # manual \/ manual_results' # manual_results) =>
           UNCHANGED <<last_batch_run, next_batch_run, is_running>>]_vars

\* a manual batch has failed on a scheduler that is running and has completed
\* a firing
C20_Witness ==
    /\ is_running
    /\ last_batch_run # None
    /\ \E k \in DOMAIN manual_results : manual_results[k].batch_raised

\* C21: trigger_manual_batch answers every call; when the work-list query or
\* the batch raised the answer has success = FALSE and an error message, and
\* otherwise it has success = TRUE and the counts of the batch.
C21_ManualFailuresAnswerFalse ==
    \A k \in DOMAIN manual_results :
        LET call == manual_results[k]
        IN  IF call.fetch_raised \/ call.batch_raised
            THEN call.result.success = FALSE /\ call.result.error # None
            ELSE /\ call.result.success = TRUE
                 /\ call.result.asins_processed = Some(call.rows)

\* ------------------------------ the life cycle of the scheduler (SpecLifecycle)

\* a start() call that found the scheduler stopped
StartFromStopped == ~is_running /\ is_running'

\* a call that was ignored
Ignored(call) == last_call' # last_call /\ last_call' = call

\* C22: start() from stopped registers the main monitoring job, sets
\* is_running and sets next_batch_run to the time of the call plus the
\* interval; start() while running registers nothing and changes no timestamp.
C22_StartSetsNextRunFromNow ==
    /\ [][StartFromStopped =>
              /\ next_fire_time' = Some(utcnow + check_interval_minutes)
              /\ next_batch_run' = Some(utcnow + check_interval_minutes)]_vars
    /\ [][Ignored("start_ignored") =>
              UNCHANGED <<is_running, next_fire_time, last_batch_run, next_batch_run, jobs,
                          system_alerts>>]_vars

\* C23: stop() from running unschedules the job, turns is_running off only
\* once no firing is in flight, and no firing starts while the scheduler is
\* stopped; stop() while stopped changes nothing.
C23_StopWaitsForFiringInFlight ==
    /\ [](~is_running => next_fire_time = None)
    /\ [][is_running /\ ~is_running' => jobs = <<>>]_vars
    /\ [][Len(jobs') > Len(jobs) => is_running /\ is_running']_vars
    /\ [][Ignored("stop_ignored") =>
              UNCHANGED <<is_running, next_fire_time, last_batch_run, next_batch_run, jobs,
                          system_alerts>>]_vars

\* ------------------------------------------- late wake-ups (SpecMisfire)

C25_RequestsAtLeastIntervalApart ==
    \A i, j \in DOMAIN requests :
        i < j => requests[j].at - requests[i].at >= min_request_interval

\* ------------------------------------------ two runs at once (SpecRace)

\* the change records of a run, without the ids the store gave them
Transitions(changes) ==
    [k \in DOMAIN changes |-> <<changes[k].asin, changes[k].change_type, changes[k].category_id>>]

\* C26: a manual run can start whatever the scheduled run is doing, and
\* neither run's records or notifications are held back on account of the
\* other's: once both are done the store holds the change records of both and
\* the channel a notification for each.
C26_ManualRunNotExcluded ==
    /\ runs["manual"].pc = "idle" => ENABLED RunStarts("manual")
    /\ (\A r \in Runs : runs[r].pc = "done") =>
           /\ Len(bestseller_changes) =
                  Len(runs["scheduled"].changes) + Len(runs["manual"].changes)
           /\ Len(slack_messages) = Len(bestseller_changes)

\* both runs read the same prior state of the item and saw the same provider
\* record: the one transition is recorded twice and notified twice
C26_Witness ==
    /\ \A r \in Runs : runs[r].pc = "done"
    /\ runs["scheduled"].current_state = runs["manual"].current_state
    /\ runs["scheduled"].product = runs["manual"].product
    /\ runs["scheduled"].changes # <<>>
    /\ Transitions(runs["scheduled"].changes) = Transitions(runs["manual"].changes)
    /\ Len(bestseller_changes) = 2 * Len(runs["scheduled"].changes)
    /\ \A i \in DOMAIN bestseller_changes : bestseller_changes[i].notification_sent
    /\ Len(slack_messages) = Len(bestseller_changes)

\* ---------------------------------------------- estimate_cost (SpecCost)

\* C27: estimate_cost(t) is max(1, floor(t / 1000 * 100)) for every token
\* count t >= 0, and a batch of N items reports estimate_cost(N).
C27_CostIsCentsPerThousandTokens ==
    LET cents == Max({1, (ec_tokens * 100) \div 1000})
    IN  /\ ec_cost # None => ec_cost[1] = cents
        /\ ec_reported # None => ec_reported[1] = cents

\* ------------------------------------------------ order of the writes (Spec)

\* the asin_history rows the item processing of poll p wrote for asin
HistoryRows(asin, p) ==
    {k \in DOMAIN asin_history : asin_history[k].asin = asin /\ asin_history[k].checked_at = p}

\* the calls of kind op the item processing of poll p made
CallsMade(op, p) == {j \in DOMAIN calls : calls[j].poll = p /\ calls[j].op = op}

\* C28: an item processing that completes, with or without a prior state, has
\* written the current state, then appended exactly one history row, then
\* updated last_checked_at; a history row once written never changes.
C28_StateThenOneHistoryThenLastChecked ==
    /\ [](\A i \in DOMAIN calls :
             calls[i].op = "last_checked" =>
                 LET p == calls[i].poll
                 IN  /\ i >= 3
                     /\ calls[i - 2].op = "write_state" /\ calls[i - 2].poll = p
                     /\ calls[i - 1].op = "write_history" /\ calls[i - 1].poll = p
                     /\ Cardinality(CallsMade("write_state", p)) = 1
                     /\ Cardinality(CallsMade("write_history", p)) = 1
                     /\ Cardinality(CallsMade("last_checked", p)) = 1
                     /\ Cardinality(HistoryRows(calls[i].asin, p)) = 1)
    /\ [][\A k \in DOMAIN asin_history :
             k \in DOMAIN asin_history' /\ asin_history'[k] = asin_history[k]]_vars

\* ------------------------------------- the one provider fetch (SpecFetch)

\* C29: a process_batch run sends exactly one provider request, for all the
\* keys of its list, before it processes any item; a list of more than 100
\* keys is refused with no request sent, no item processed and
\* last_request_time as it was.
C29_OneFetchForTheWholeList ==
    /\ batch_run.pc \in {"called", "sleeping"} => Sent = {} /\ batch_run.processed = 0
    /\ batch_run.pc \in {"requesting", "loop", "failed"} =>
          /\ Cardinality(Sent) = 1
          /\ \A k \in Sent : requests[k].asins = batch_run.asins
    /\ batch_run.processed > 0 => batch_run.pc = "loop"
    /\ batch_run.asins > 100 =>
          /\ batch_run.pc \in {"called", "rejected"}
          /\ Sent = {}
          /\ batch_run.processed = 0
          /\ last_request_time = batch_run.last_before
    /\ \A k \in DOMAIN requests : requests[k].asins <= 100

\* a list of 101 keys has been refused after an earlier run fetched and
\* processed a list of 100
C29_Witness ==
    /\ batch_run.pc = "rejected"
    /\ batch_run.asins = 101
    /\ \E k \in DOMAIN requests : requests[k].asins = 100
    /\ last_request_time > 0

\* ------------------------------------------ one item after another (Spec)

\* the place in the list of the item that call i of the run belongs to: the
\* number of items the run had taken up when the call was made
Position(i) == Cardinality({calls[j].poll : j \in 1..i})

\* the calls that end the handling of an item
LastCalls == {"succeeded", "log_error", "no_product"}

\* C30: a batch run handles its items one after another in list order: the
\* calls of one item are made together and for the item at that place of the
\* list, the item before it has been dealt with when they start, and the run
\* is never at work on more than the one item its loop is at.
C30_ItemsOneAfterAnotherInListOrder ==
    /\ \A i \in DOMAIN calls :
          /\ Position(i) \in DOMAIN tracked_asins
          /\ calls[i].asin = tracked_asins[Position(i)]
          /\ Position(i) <= idx
          /\ pc = "loop" => Position(i) < idx
    /\ \A i \in DOMAIN calls :
          i < Len(calls) =>
              /\ calls[i].poll <= calls[i + 1].poll
              /\ calls[i].poll # calls[i + 1].poll => calls[i].op \in LastCalls
    /\ pc \notin {"idle", "fetch", "loop"} =>
          /\ idx \in DOMAIN tracked_asins
          /\ item.asin = tracked_asins[idx]
          /\ \A i \in DOMAIN calls : calls[i].poll = clock \/ Position(i) < idx

\* the second item of a list is being notified about after the first item was
\* dealt with
C30_Witness ==
    /\ pc = "notify"
    /\ idx = 2
    /\ \E i \in DOMAIN calls : calls[i].op = "notify" /\ Position(i) = 2
    /\ \E i \in DOMAIN calls : calls[i].op \in LastCalls /\ Position(i) = 1

\* ------------------------------------------------- last_checked_at (Spec)

\* C31: when the handling of an item of the list is over, with a processing
\* that returned, with no record for the item or with a processing that
\* raised, the item's last_checked_at is the time of that attempt.
C31_LastCheckedAfterEveryAttempt ==
    \A i \in DOMAIN calls :
        calls[i].op \in LastCalls => last_checked_at[calls[i].asin] >= calls[i].poll

\* C31 as the code has it: last_checked_at changes only in the last step of an
\* item processing that made all its calls, to the time of that processing,
\* and only when the store accepts the update; an item without a record and
\* an item whose processing raised keep the last_checked_at they had.
C31_LastCheckedOnlyWhenProcessingCompletes ==
    /\ [][\A a \in Asins :
             last_checked_at'[a] # last_checked_at[a] =>
                 /\ pc = "last_checked" /\ pc' = "notify"
                 /\ item.asin = a
                 /\ last_checked_at'[a] = clock
                 /\ calls'[Len(calls')] = Call("last_checked", TRUE)]_vars
    /\ [](\A i \in DOMAIN calls :
             calls[i].op \in {"no_product", "raised"} =>
                 last_checked_at[calls[i].asin] # calls[i].poll)
    /\ [](\A i \in DOMAIN calls :
             (calls[i].op = "last_checked" /\ calls[i].ok) =>
                 last_checked_at[calls[i].asin] >= calls[i].poll)

\* one run has met an item without a record and an item whose processing
\* raised, and has completed the processing of an item; only that one has a
\* new last_checked_at
C31_Witness ==
    /\ \E i \in DOMAIN calls : calls[i].op = "no_product" /\ last_checked_at[calls[i].asin] = 0
    /\ \E i \in DOMAIN calls :
          calls[i].op = "last_checked" /\ calls[i].ok /\ last_checked_at[calls[i].asin] = calls[i].poll

\* ------------------------------------------- the current-state upsert (Spec)

\* the write_state calls of the run that left the row other than the state
\* they carried
FailedStateWrites == {i \in DOMAIN calls : calls[i].op = "write_state" /\ ~calls[i].ok}

\* the get_asin_current_state call of the item processing in hand went through
StateReadOk == \E i \in DOMAIN calls : calls[i].poll = clock /\ calls[i].op = "get_state" /\ calls[i].ok

\* C32: the current-state write updates the row when there is one and inserts
\* it when there is none: it leaves the row unwritten only when the store
\* refused a request.  A row is never deleted, and a later processing of the
\* item that reads a row finds it and takes the prior-state path.
C32_CurrentStateIsUpserted ==
    /\ [](Cardinality(FailedStateWrites) <= faults)
    /\ [][\A a \in Asins : asin_current_state[a] # None => asin_current_state'[a] # None]_vars
    /\ []((pc \in {"create_changes", "write_state"} /\ StateReadOk) =>
             item.current_state = asin_current_state[item.asin])
    /\ []((pc = "create_changes" /\ StateReadOk) => asin_current_state[item.asin] # None)

\* the tables started without rows; a first check of item 1 inserted its row
\* and the second poll of the item has read it
C32_Witness ==
    /\ asin_current_state["B000000002"] = None
    /\ clock = 2
    /\ item.asin = "B000000001"
    /\ pc \in {"create_changes", "write_state"}
    /\ StateReadOk
    /\ item.current_state # None

\* ------------------------------------------- no second attempt (Spec)

\* the ids of the change records still to be notified by the processing in hand
ToNotify == {item.to_notify[j].id : j \in DOMAIN item.to_notify}

\* C33: a change record is notified about once, by the item processing that
\* created it: its row changes only in that one attempt and only when the
\* channel confirmed, so a record whose attempt failed stays
\* notification_sent = false, and no later processing takes up a record made
\* before it.
C33_FailedNotificationNeverRetried ==
    /\ [][\A k \in DOMAIN bestseller_changes :
             bestseller_changes'[k] # bestseller_changes[k] =>
                 /\ pc = "notify"
                 /\ item.to_notify # <<>>
                 /\ Head(item.to_notify).id = k
                 /\ Len(slack_messages') = Len(slack_messages) + 1
                 /\ slack_messages'[Len(slack_messages')].change_id = k]_vars
    /\ [][Len(slack_messages') > Len(slack_messages) =>
             /\ pc = "notify"
             /\ item.to_notify # <<>>
             /\ slack_messages'[Len(slack_messages')].change_id = Head(item.to_notify).id]_vars
    /\ [][(pc = "notify" /\ item.to_notify # <<>>) =>
             ToNotify' = ToNotify \ {Head(item.to_notify).id}]_vars
    /\ [][ToNotify' \ ToNotify # {} => pc = "last_checked"]_vars
    /\ [](\A k \in ToNotify :
             /\ k > item.rows_before
             /\ k \in DOMAIN bestseller_changes
             /\ ~bestseller_changes[k].notification_sent
             /\ ~Delivered(k))
    /\ [](Cardinality(ToNotify) = Len(item.to_notify))
    /\ [](item.rows_before <= Len(bestseller_changes))
    /\ [][pc' = "get_state" /\ pc # "get_state" => item'.rows_before = Len(bestseller_changes)]_vars

\* the notification of the first change record failed in the first poll of
\* the item; the second poll of the item has recorded another change and is
\* about to notify it, and the first record is still unsent
C33_Witness ==
    /\ clock = 2
    /\ pc = "notify"
    /\ item.to_notify # <<>>
    /\ Len(bestseller_changes) = 2
    /\ bestseller_changes[1].asin = item.asin
    /\ last_checked_at[item.asin] >= 1
    /\ ~bestseller_changes[1].notification_sent
    /\ ~Delivered(1)
    /\ faults = 1
    /\ ToNotify = {2}

\* ------------------------------------------ the counts of a result (Spec)

\* the polls of the run that ended as successful checks
SuccessfulPolls == {calls[i].poll : i \in {j \in DOMAIN calls : calls[j].op = "succeeded"}}

\* the change records persisted by the item processings of those polls
ChangesOfSuccessfulChecks ==
    {k \in DOMAIN bestseller_changes : bestseller_changes[k].detected_at \in SuccessfulPolls}

\* C34: the result process_batch returns for N items has successful_checks +
\* failed_checks = asins_processed = N, notifications_sent <= changes_detected,
\* and changes_detected is the number of change records persisted for the
\* items counted successful.
C34_ResultCountsAddUp ==
    (pc = "idle" /\ outcome.status = "returned") =>
        /\ outcome.asins_processed = Len(tracked_asins)
        /\ outcome.successful_checks + outcome.failed_checks = outcome.asins_processed
        /\ outcome.successful_checks = Cardinality(SuccessfulPolls)
        /\ outcome.notifications_sent <= outcome.changes_detected
        /\ outcome.changes_detected = Cardinality(ChangesOfSuccessfulChecks)

\* a run over two items has returned: one had no record, the other was a
\* successful check with a change recorded whose notification failed
C34_Witness ==
    /\ pc = "idle"
    /\ outcome.status = "returned"
    /\ outcome.asins_processed = 2
    /\ outcome.failed_checks = 1
    /\ outcome.successful_checks = 1
    /\ outcome.changes_detected >= 1
    /\ outcome.notifications_sent < outcome.changes_detected

\* ------------------------------- the same record twice in a row (SpecRepeat)

\* C35: the second of two processings in a row of the same provider record,
\* the store accepting every call, creates no change record and sends no
\* notification, and the designations it stores are those the first stored.
C35_SameRecordTwiceChangesNothing ==
    clock = 2 =>
        /\ \A i \in DOMAIN calls :
              calls[i].poll = 2 => calls[i].op \notin {"create_change", "notify"}
        /\ \A k \in DOMAIN bestseller_changes : bestseller_changes[k].detected_at # 2
        /\ \A k \in DOMAIN slack_messages :
              bestseller_changes[slack_messages[k].change_id].detected_at # 2
        /\ pc \in {"write_history", "last_checked", "notify"} =>
              /\ item.current_state # None
              /\ asin_current_state[RepeatAsin] # None
              /\ CategoryIds(asin_current_state[RepeatAsin][1].bestseller_badges) =
                    CategoryIds(item.current_state[1].bestseller_badges)

\* --------------------------------------------- gained and lost in turn (Spec)

\* rows i and j of bestseller_changes are for the same item and category
SamePair(i, j) ==
    /\ bestseller_changes[i].asin = bestseller_changes[j].asin
    /\ bestseller_changes[i].category_id = bestseller_changes[j].category_id

\* C36: as long as the store has accepted every call, of two change records
\* in a row for the same item and category one is gained and the other lost.
C36_GainedAndLostAlternate ==
    faults = 0 =>
        \A i, j \in DOMAIN bestseller_changes :
            (/\ i < j
             /\ SamePair(i, j)
             /\ \A k \in (i + 1)..(j - 1) : ~SamePair(i, k)) =>
                bestseller_changes[i].change_type # bestseller_changes[j].change_type

\* ------------------------------------------ the stored designations (Spec)

\* the item processing in hand has made its state write
StateWritten == pc \in {"write_history", "last_checked", "notify"}

\* C37: once an item processing has written the current state, the store
\* having accepted every call, the stored designations are those of
\* extract_bestseller_badges for the record processed: the same category ids,
\* the categories the record has at rank 1, each with rank 1 and none twice.
C37_StoredDesignationsAreTheExtractedOnes ==
    (StateWritten /\ faults = 0) =>
        /\ asin_current_state[item.asin] # None
        /\ LET stored == asin_current_state[item.asin][1].bestseller_badges
               extracted == extract_bestseller_badges(item.product[1])
           IN  /\ CategoryIds(stored) = CategoryIds(extracted)
               /\ CategoryIds(stored) = RankOneCategories(item.product[1])
               /\ \A k \in DOMAIN stored : stored[k].rank = 1
               /\ \A k, l \in DOMAIN stored :
                     stored[k].category_id = stored[l].category_id => k = l

\* a record with two categories at rank 1 has been processed for an item
\* that had no row, and the row holds the two designations
C37_Witness ==
    /\ StateWritten
    /\ faults = 0
    /\ item.current_state = None
    /\ asin_current_state[item.asin] # None
    /\ Len(asin_current_state[item.asin][1].bestseller_badges) = 2

\* --------------------------------------------- no transition lost (Spec)

\* the category ids of the row stored for asin in table
StoredCategories(table, asin) == CategoryIds(table[asin][1].bestseller_badges)

\* the item processing in hand has persisted a change record of that type
\* for category c
Recorded(c, change_type) ==
    \E k \in NewRows :
        /\ bestseller_changes[k].category_id = c
        /\ bestseller_changes[k].change_type = change_type

\* C38: when an item processing writes the current state over a row whose
\* designations differ from the extracted ones, it has persisted a change
\* record for every gained and every lost category, or the row keeps the
\* designations it had.
C38_NoTransitionSilentlyLost ==
    [][(/\ pc = "write_state" /\ pc' = "write_history"
        /\ asin_current_state[item.asin] # None
        /\ StoredCategories(asin_current_state, item.asin) # CategoryIds(item.current_badges)) =>
           LET previous == StoredCategories(asin_current_state, item.asin)
               current == CategoryIds(item.current_badges)
           IN  \/ /\ \A c \in current \ previous : Recorded(c, "gained")
                  /\ \A c \in previous \ current : Recorded(c, "lost")
               \/ StoredCategories(asin_current_state', item.asin) = previous]_vars

\* C39: in every reachable state is_running is true exactly when the timer
\* scheduler is started with the main_monitoring job registered; a start()
\* that raises leaves is_running false and no job registered, and a stop()
\* that raises leaves is_running true.
C39_RunningFlagTracksTheTimerScheduler ==
    /\ [](is_running <=> (scheduler_running /\ "main_monitoring" \in scheduler_jobs))
    /\ [][StartRaises => ~is_running' /\ scheduler_jobs' = {}]_vars
    /\ [][StopRaises => is_running']_vars

====
